---- MODULE Spec2Model ----
(***************************************************************************)
(* Quality-to-subgraph similarity filter of KBExtraction:                  *)
(*   kbdebugger/subgraph_similarity/similarity_filter.py                   *)
(*   kbdebugger/subgraph_similarity/index.py        (FAISS IndexFlatIP)    *)
(*   kbdebugger/subgraph_similarity/faiss_utils.py                         *)
(*   kbdebugger/vector/encoder.py                                          *)
(*                                                                         *)
(* float32 values are modelled in fixed point: the integer x stands for    *)
(* the real number x / Scale.  Strings are sequences of one-character      *)
(* strings.  A numpy array is a record [ndim, cols, rows].                 *)
(***************************************************************************)
EXTENDS Integers, Sequences, FiniteSets, TLC

\* The field names of the records of the model.
RecordFields == [args |-> {}, arr |-> {}, backend |-> {}, backend_calls |-> {}, calls |-> {}, cols |-> {}, current |-> {}, dim |-> {}, distances |-> {}, docling |-> {}, dropped |-> {}, dropped_pos |-> {}, dropped_qualities |-> {}, edge |-> {}, encoder |-> {}, error |-> {}, extraction |-> {}, faiss |-> {}, files |-> {}, first |-> {}, fn |-> {}, handed |-> {}, hnsw |-> {}, ids |-> {}, index |-> {}, item |-> {}, k |-> {}, keep |-> {}, kept |-> {}, kept_pos |-> {}, kept_qualities |-> {}, kg_relations |-> {}, kind |-> {}, label |-> {}, labels |-> {}, log |-> {}, masked |-> {}, max_elements |-> {}, max_score |-> {}, max_scores |-> {}, n |-> {}, ndim |-> {}, neighbors |-> {}, num_dropped |-> {}, num_input_qualities |-> {}, num_kept |-> {}, ok |-> {}, op |-> {}, pairs |-> {}, paragraphs |-> {}, payload |-> {}, payloads |-> {}, pos |-> {}, properties |-> {}, qualities |-> {}, quality |-> {}, rec |-> {}, relation |-> {}, relations |-> {}, result |-> {}, ret |-> {}, rows |-> {}, score |-> {}, scores |-> {}, second |-> {}, secrets |-> {}, self |-> {}, sentence |-> {}, source |-> {}, stage |-> {}, state |-> {}, store |-> {}, target |-> {}, text |-> {}, total |-> {}, tuple |-> {}, upload |-> {}, v |-> {}, value |-> {}, vec |-> {}, vectors |-> {}]

\* ------------------------------------------------------------------ bounds
\* Fixed-point resolution: x stands for x / Scale.
Scale == 100
\* Longest relations sequence handed to build_index.
MaxRelations == 2
\* Longest qualities sequence handed to filter_qualities.
MaxQualities == 2
\* Largest top_k / k tried.
MaxTopK == 3
\* Most rows one add call of the index API run supplies.
MaxAddRows == 2
\* Most entries the index API run lets an index grow to.
MaxIndexSize == 2

\* ------------------------------------------------------------ sequences
Range(s) == {s[i] : i \in 1..Len(s)}

SeqsUpTo(S, n) == UNION {[1..m -> S] : m \in 0..n}

Min2(a, b) == IF a <= b THEN a ELSE b

Max2(a, b) == IF a >= b THEN a ELSE b

RECURSIVE SeqMax(_)
SeqMax(s) == IF Len(s) = 1 THEN s[1] ELSE Max2(s[1], SeqMax(Tail(s)))

RECURSIVE FlatConcat(_)
FlatConcat(ss) == IF ss = <<>> THEN <<>> ELSE Head(ss) \o FlatConcat(Tail(ss))

\* ------------------------------------------------------------ text shaping
Str_Bias == <<"B", "i", "a", "s">>
Str_Fairness == <<"F", "a", "i", "r", "n", "e", "s", "s">>
Str_is_threat_to == <<"i", "s", "_", "t", "h", "r", "e", "a", "t", "_", "t", "o">>
Str_data_drift == <<"d", "a", "t", "a", "_", "d", "r", "i", "f", "t">>
Str_harms == <<"h", "a", "r", "m", "s">>
Str_accuracy_ == <<"a", "c", "c", "u", "r", "a", "c", "y", "_">>
Str_noise_sentence == <<"l", "a", "b", "e", "l", "_", "n", "o", "i", "s", "e", " ", "h", "u", "r", "t", "s">>
Str_empty == <<>>

\* str.upper() on one character, for the letters the model's texts use.
Upper(c) == CASE c = "a" -> "A" [] c = "b" -> "B" [] c = "d" -> "D" [] c = "f" -> "F" [] c = "h" -> "H" [] c = "i" -> "I" [] c = "l" -> "L" [] c = "s" -> "S" [] c = "t" -> "T" [] c = "w" -> "W" [] OTHER -> c

IsSpace(c) == c = " "

RECURSIVE LStrip(_)
LStrip(s) == IF s # <<>> /\ IsSpace(Head(s)) THEN LStrip(Tail(s)) ELSE s

RECURSIVE RStrip(_)
RStrip(s) == IF s # <<>> /\ IsSpace(s[Len(s)]) THEN RStrip(SubSeq(s, 1, Len(s) - 1)) ELSE s

\* Variant of humanize: token.replace("_", " ") without the strip.
humanize_unstripped(token) == [i \in 1..Len(token) |-> IF token[i] = "_" THEN " " ELSE token[i]]

\* token.replace("_", " ").strip()
humanize(token) == RStrip(LStrip([i \in 1..Len(token) |-> IF token[i] = "_" THEN " " ELSE token[i]]))

\* text[:1].upper() + text[1:]
capitalize_sentence(text) == IF text = <<>> THEN <<>> ELSE <<Upper(text[1])>> \o Tail(text)

\* quality_to_text: the quality itself.
quality_to_text(q) == q

\* relation_to_text: the stored sentence when truthy, else "<source> <predicate> <target>".
relation_to_text(r) == IF r.edge.properties.sentence # Str_empty THEN capitalize_sentence(humanize(r.edge.properties.sentence)) ELSE capitalize_sentence(humanize(r.source.label) \o <<" ">> \o humanize(r.edge.label) \o <<" ">> \o humanize(r.target.label))

\* GraphRelation values of the model; sentence = <<>> stands for no stored sentence.
MkRelation(s, p, o, sent) == [edge |-> [label |-> p, properties |-> [sentence |-> sent]], source |-> [label |-> s], target |-> [label |-> o]]

Rel_bias == MkRelation(Str_Bias, Str_is_threat_to, Str_Fairness, Str_empty)
Rel_drift == MkRelation(Str_data_drift, Str_harms, Str_accuracy_, Str_empty)
Rel_noise == MkRelation(Str_Bias, Str_harms, Str_Fairness, Str_noise_sentence)

Relations == {Rel_bias, Rel_drift, Rel_noise}

\* Quality sentences of the model.
Q_bias == <<"B", "i", "a", "s", " ", "i", "s", " ", "t", "h", "r", "e", "a", "t", " ", "t", "o", " ", "F", "a", "i", "r", "n", "e", "s", "s">>
Q_weather == <<"T", "h", "e", " ", "w", "e", "a", "t", "h", "e", "r", " ", "i", "s", " ", "s", "u", "n", "n", "y", " ", "t", "o", "d", "a", "y">>
Q_BIAS == <<"B", "I", "A", "S">>
Q_unbiased == <<"U", "n", "b", "i", "a", "s", "e", "d">>

Qualities == {Q_bias, Q_weather, Q_BIAS, Q_unbiased}

\* ------------------------------------------------------------ fixed point
\* Floating-point operations round their exact result to the nearest
\* representable value: the quotient of a by b > 0, and the square root of n,
\* to the nearest fixed-point step.
RoundDiv(a, b) == IF a >= 0 THEN (2 * a + b) \div (2 * b) ELSE -((2 * (-a) + b) \div (2 * b))

\* The least r of lo..hi with n < (r + 1/2)^2, found by bisection.
RECURSIVE SqrtBetween(_, _, _)
SqrtBetween(n, lo, hi) == IF lo >= hi THEN lo ELSE IF 2 * ((lo + hi) \div 2) + 1 > (4 * n) \div (2 * ((lo + hi) \div 2) + 1) THEN SqrtBetween(n, lo, (lo + hi) \div 2) ELSE SqrtBetween(n, (lo + hi) \div 2 + 1, hi)

Sqrt(n) == SqrtBetween(n, 0, n)

RECURSIVE SumSq(_)
SumSq(v) == IF v = <<>> THEN 0 ELSE Head(v) * Head(v) + SumSq(Tail(v))

RECURSIVE SumProd(_, _)
SumProd(u, v) == IF u = <<>> THEN 0 ELSE Head(u) * Head(v) + SumProd(Tail(u), Tail(v))

\* Inner product of two fixed-point vectors of the same length.
Dot(u, v) == RoundDiv(SumProd(u, v), Scale)

\* ------------------------------------------------------------ numpy arrays
\* A 2-D array of shape (N, D): ndim = 2, cols = D, rows = the N rows.
Matrix(rows, d) == [cols |-> d, ndim |-> 2, rows |-> rows]

\* A 1-D array of shape (len(v),), e.g. np.asarray([]).
Vector1D(v) == [cols |-> 0, ndim |-> 1, rows |-> <<v>>]

\* ------------------------------------------------------------ encoder
\* The sentences of the relations that differ from every quality.
Text_drift == relation_to_text(Rel_drift)

Text_noise == relation_to_text(Rel_noise)

\* One fixed embedding model: text -> raw (not unit-length) vector.
EmbeddingOf(t) == CASE t = Q_bias -> <<Scale, 0>> [] t = Text_drift -> <<0, Scale>> [] t = Text_noise -> <<Scale, Scale>> [] t = Q_weather -> <<Scale \div 5, -Scale>> [] t = Q_BIAS -> <<2 * Scale, 2 * Scale>> [] t = Q_unbiased -> <<-Scale, -Scale>> [] OTHER -> <<0, 0>>

\* encoder.dim
EncoderDim == Len(EmbeddingOf(Q_bias))

\* encoder.encode(texts): (0, dim) zeros for no texts, else one row per text.
encode(texts) == IF texts = <<>> THEN Matrix(<<>>, EncoderDim) ELSE Matrix([i \in 1..Len(texts) |-> EmbeddingOf(texts[i])], EncoderDim)

\* ------------------------------------------------------------ DummyEncoder
\* The characters of the texts, by code order.
Alphabet == <<" ", ".", "A", "B", "F", "I", "S", "T", "U", "_", "a", "b", "c", "d", "e", "f", "h", "i", "m", "n", "o", "r", "s", "t", "u", "w", "y">>

CharCode(c) == IF \E i \in 1..Len(Alphabet) : Alphabet[i] = c THEN CHOOSE i \in 1..Len(Alphabet) : Alphabet[i] = c ELSE 0

\* hash(t) of a str: a keyed hash of the characters; the key (secret) is drawn
\* by the interpreter when the process starts.  hash("") is 0.  The value is
\* signed, here of 16 bits instead of 64.
RECURSIVE StrHashKeyed(_, _, _)
StrHashKeyed(h, key, t) == IF t = <<>> THEN h ELSE StrHashKeyed((h * 33 + CharCode(Head(t)) * key) % (2 ^ 16), key, Tail(t))

StrHash(t, secret) == IF t = <<>> THEN 0 ELSE StrHashKeyed(5381 + 4057 * secret, 1 + 2 * secret, t) - 2 ^ 15

Abs(n) == IF n < 0 THEN -n ELSE n

\* seed = abs(hash(t)) % (2**32); the hash of the model is below 2**32 in size.
DummySeed(t, secret) == Abs(StrHash(t, secret))

\* rng.standard_normal(dim) of default_rng(seed), divided by its norm: a unit
\* vector fixed by the seed.
DummyDirection(seed) == CASE seed % 8 = 0 -> <<Scale, 0>> [] seed % 8 = 1 -> <<(7 * Scale) \div 10, (7 * Scale) \div 10>> [] seed % 8 = 2 -> <<0, Scale>> [] seed % 8 = 3 -> <<-((7 * Scale) \div 10), (7 * Scale) \div 10>> [] seed % 8 = 4 -> <<-Scale, 0>> [] seed % 8 = 5 -> <<-((7 * Scale) \div 10), -((7 * Scale) \div 10)>> [] seed % 8 = 6 -> <<0, -Scale>> [] OTHER -> <<(7 * Scale) \div 10, -((7 * Scale) \div 10)>>

\* DummyEncoder(dim=EncoderDim).encode(texts) in a process whose hash secret is secret.
dummy_encode(texts, secret) == Matrix([i \in 1..Len(texts) |-> DummyDirection(DummySeed(texts[i], secret))], EncoderDim)

\* self.encoder.encode(texts) for the encoder the filter was constructed with.
EncodeWith(enc, secret, texts) == IF enc = "DummyEncoder" THEN dummy_encode(texts, secret) ELSE encode(texts)

\* ------------------------------------------------------------ faiss_utils
\* _as_float32_matrix: ValueError unless the array is 2-D.
as_float32_matrix(x) == IF x.ndim # 2 THEN [arr |-> x, ok |-> FALSE] ELSE [arr |-> x, ok |-> TRUE]

\* Variant of DivideByNorm without the np.where guard: 0 / 0 is not a number,
\* here a value outside every vector.
DivideByNorm_unguarded(v, norm) == [i \in 1..Len(v) |-> IF norm = 0 THEN -(Scale * Scale) ELSE RoundDiv(v[i] * Scale, norm)]

\* norms = np.where(norms == 0.0, 1.0, norms); x / norms
DivideByNorm(v, norm) == [i \in 1..Len(v) |-> RoundDiv(v[i] * Scale, IF norm = 0 THEN Scale ELSE norm)]

\* Variant of l2_normalize_row that leaves the row at its length.
l2_normalize_row_raw(v) == v

\* One row of _l2_normalize_rows.
l2_normalize_row(v) == DivideByNorm(v, Sqrt(SumSq(v)))

\* _l2_normalize_rows(x)
l2_normalize_rows(rows) == [i \in 1..Len(rows) |-> l2_normalize_row(rows[i])]

\* ------------------------------------------------------------ FAISS IndexFlatIP
\* Score FAISS reports in a slot it could not fill (id -1): the lowest float.
UnfilledScore == -(Scale * Scale)

\* index.add(matrix): vectors get the ids ntotal, ntotal + 1, ... in row order.
faiss_add(store, rows) == store \o rows

\* Variant of BestFirst: ids by inner product, worst first.
RECURSIVE BestFirst_ascending(_, _)
BestFirst_ascending(cands, sc) == IF cands = {} THEN <<>> ELSE BestFirst_ascending(cands \ {CHOOSE i \in cands : \A j \in cands : sc[i] > sc[j] \/ (sc[i] = sc[j] /\ i <= j)}, sc) \o <<CHOOSE i \in cands : \A j \in cands : sc[i] > sc[j] \/ (sc[i] = sc[j] /\ i <= j)>>

\* Ids by inner product, best first (equal scores: lower id first).
RECURSIVE BestFirst(_, _)
BestFirstFrom(cands, sc, b) == <<b>> \o BestFirst(cands \ {b}, sc)

BestFirst(cands, sc) == IF cands = {} THEN <<>> ELSE BestFirstFrom(cands, sc, CHOOSE i \in cands : \A j \in cands : sc[i] > sc[j] \/ (sc[i] = sc[j] /\ i <= j))

\* Variant of RowSlots: the slots that could not be filled come first.
RowSlots_unfilled_first(n, sc, order, k) == [ids |-> [j \in 1..k |-> IF j > k - n THEN order[j - Max2(k - n, 0)] ELSE -1], scores |-> [j \in 1..k |-> IF j > k - n THEN sc[order[j - Max2(k - n, 0)]] ELSE UnfilledScore]]

\* The k slots of one result row; a slot beyond the n stored vectors has id -1.
RowSlots(n, sc, order, k) == [ids |-> [j \in 1..k |-> IF j <= n THEN order[j] ELSE -1], scores |-> [j \in 1..k |-> IF j <= n THEN sc[order[j]] ELSE UnfilledScore]]

RowRanked(n, sc, k) == RowSlots(n, sc, BestFirst(0..(n - 1), sc), k)

\* One row of index.search(q, k).
faiss_search_row(store, q, k) == RowRanked(Len(store), [i \in 0..(Len(store) - 1) |-> Dot(q, store[i + 1])], k)

SplitRows(rows) == [ids |-> [i \in 1..Len(rows) |-> rows[i].ids], scores |-> [i \in 1..Len(rows) |-> rows[i].scores]]

\* index.search(q_norm, k) -> (scores, ids), both of shape (Q, k).
faiss_search(store, qrows, k) == SplitRows([i \in 1..Len(qrows) |-> faiss_search_row(store, qrows[i], k)])

\* ------------------------------------------------------------ VectorIndex (index.py)
\* VectorIndex.create: an empty IndexFlatIP(dim); max_elements is not used.
create(dim, max_elements) == [backend |-> "faiss", dim |-> dim, index |-> <<>>, max_elements |-> 0, payloads |-> <<>>]

\* What a raising call leaves behind: the index as it was.
Raised(self) == [ok |-> FALSE, self |-> self]

\* Variant of add_checked: the vectors are stored before the lengths are compared.
add_checked_late(self, m, items) == IF ~m.ok THEN Raised(self) ELSE IF m.arr.cols # self.dim THEN Raised(self) ELSE IF Len(m.arr.rows) # Len(items) THEN Raised([self EXCEPT !.index = faiss_add(@, l2_normalize_rows(m.arr.rows))]) ELSE [ok |-> TRUE, self |-> [self EXCEPT !.index = faiss_add(@, l2_normalize_rows(m.arr.rows)), !.payloads = @ \o items]]

\* add, after the conversion of vectors: the two shape checks, then the insertion.
add_checked(self, m, items) == IF ~m.ok THEN Raised(self) ELSE IF m.arr.cols # self.dim THEN Raised(self) ELSE IF Len(m.arr.rows) # Len(items) THEN Raised(self) ELSE [ok |-> TRUE, self |-> [self EXCEPT !.index = faiss_add(@, l2_normalize_rows(m.arr.rows)), !.payloads = @ \o items]]

\* VectorIndex.add(vectors, items)
add(self, vectors, items) == add_checked(self, as_float32_matrix(vectors), items)

\* Variant of RowPayloads: a negative id is used as a Python index (payloads[-1]).
RECURSIVE RowPayloads_wrap(_, _)
RowPayloads_wrap(payloads, row_ids) == IF row_ids = <<>> THEN <<>> ELSE IF Head(row_ids) < 0 THEN <<payloads[Len(payloads)]>> \o RowPayloads_wrap(payloads, Tail(row_ids)) ELSE <<payloads[Head(row_ids) + 1]>> \o RowPayloads_wrap(payloads, Tail(row_ids))

\* The payloads of one row of ids, the negative (sentinel) ids skipped.
RECURSIVE RowPayloads(_, _)
RowPayloads(payloads, row_ids) == IF row_ids = <<>> THEN <<>> ELSE IF Head(row_ids) < 0 THEN RowPayloads(payloads, Tail(row_ids)) ELSE <<payloads[Head(row_ids) + 1]>> \o RowPayloads(payloads, Tail(row_ids))

\* Variant of MaskScores: the scores are returned as the backend gave them.
MaskScores_none(scores, ids) == scores

\* scores[invalid_mask] = 0.0
MaskScores(scores, ids) == [i \in 1..Len(scores) |-> [j \in 1..Len(scores[i]) |-> IF ids[i][j] < 0 THEN 0 ELSE scores[i][j]]]

\* A search_batch call that raised.
SearchRaised == [backend_calls |-> 0, ids |-> <<>>, neighbors |-> <<>>, ok |-> FALSE, scores |-> <<>>]

\* search_batch with k <= 0: no backend call, Q empty rows.
SearchNothing(num_q) == [backend_calls |-> 0, ids |-> [i \in 1..num_q |-> <<>>], neighbors |-> [i \in 1..num_q |-> <<>>], ok |-> TRUE, scores |-> [i \in 1..num_q |-> <<>>]]

\* search_batch after the backend answered r = (scores, ids).
SearchFound(self, r) == [backend_calls |-> 1, ids |-> r.ids, neighbors |-> [i \in 1..Len(r.ids) |-> RowPayloads(self.payloads, r.ids[i])], ok |-> TRUE, scores |-> MaskScores(r.scores, r.ids)]

\* Variant of search_batch_checked: k <= 0 is handed to the backend like any k.
search_batch_checked_any_k(self, q, k) == IF ~q.ok THEN SearchRaised ELSE IF q.arr.cols # self.dim THEN SearchRaised ELSE SearchFound(self, faiss_search(self.index, l2_normalize_rows(q.arr.rows), k))

\* search_batch, after the conversion of query_vecs.
search_batch_checked(self, q, k) == IF ~q.ok THEN SearchRaised ELSE IF q.arr.cols # self.dim THEN SearchRaised ELSE IF k <= 0 THEN SearchNothing(Len(q.arr.rows)) ELSE SearchFound(self, faiss_search(self.index, l2_normalize_rows(q.arr.rows), k))

\* VectorIndex.search_batch(query_vecs, k) -> (neighbors, scores); ids and
\* backend_calls record what the backend returned and how often it was asked.
search_batch(self, query_vecs, k) == search_batch_checked(self, as_float32_matrix(query_vecs), k)

\* ------------------------------------------------------------ VectorIndex (index_hnswlib.py)
\* VectorIndex.create: hnswlib.Index(space="cosine", dim), init_index(max_elements).
hnsw_create(dim, max_elements) == [backend |-> "hnswlib", dim |-> dim, index |-> <<>>, max_elements |-> max_elements, payloads |-> <<>>]

\* index.add_items(vectors, ids): the rows are taken in order, row r is stored,
\* unit length, under label ids[r]; a row whose label does not fit into the
\* max_elements the index was initialised with makes the call raise, the rows
\* before it stay stored.
hnsw_add_items(store, rows, ids, max_elements) == [ok |-> \A r \in 1..Len(ids) : ids[r] < max_elements, store |-> [j \in 1..Max2(Len(store), IF ids = <<>> THEN 0 ELSE Min2(max_elements, ids[Len(ids)] + 1)) |-> IF \E r \in 1..Len(ids) : ids[r] = j - 1 THEN l2_normalize_row(rows[CHOOSE r \in 1..Len(ids) : ids[r] = j - 1]) ELSE store[j]]]

\* np.arange(start_id, start_id + n)
arange(start_id, n) == [r \in 1..n |-> start_id + r - 1]

\* add, after add_items: payloads.extend(items) is reached when add_items returned.
hnsw_added(self, a, items) == IF a.ok THEN [ok |-> TRUE, self |-> [self EXCEPT !.index = a.store, !.payloads = @ \o items]] ELSE Raised([self EXCEPT !.index = a.store])

\* VectorIndex.add(vectors, items) of the hnswlib index.
hnsw_add(self, vectors, items) == IF vectors.ndim # 2 \/ vectors.cols # self.dim THEN Raised(self) ELSE IF Len(vectors.rows) # Len(items) THEN Raised(self) ELSE hnsw_added(self, hnsw_add_items(self.index, vectors.rows, arange(Len(self.payloads), Len(items)), self.max_elements), items)

\* One call made to a collaborator: fn is its name, n the size of its batch.
Call(fn, n) == [fn |-> fn, n |-> n]

\* A knn_query call that raised.
KnnRaised == [distances |-> <<>>, labels |-> <<>>, ok |-> FALSE]

\* What knn_query returns for the nearest entries r: labels, cosine distances.
KnnFound(r) == [distances |-> [i \in 1..Len(r.scores) |-> [j \in 1..Len(r.scores[i]) |-> Scale - r.scores[i][j]]], labels |-> r.ids, ok |-> TRUE]

\* index.knn_query(q, k) on the cosine space: queries of another width raise,
\* asking for more neighbors than the index holds raises, else the k nearest
\* entries per query, nearest first (the graph search is exact on an index
\* this small).
hnsw_knn_query(self, q, k) == IF q.cols # self.dim THEN KnnRaised ELSE IF q.rows # <<>> /\ k > Len(self.index) THEN KnnRaised ELSE KnnFound(faiss_search(self.index, l2_normalize_rows(q.rows), k))

\* 1.0 - distances
Similarities(distances) == [i \in 1..Len(distances) |-> [j \in 1..Len(distances[i]) |-> Scale - distances[i][j]]]

\* payloads[int(idx)] raises IndexError for a label no payload was stored for.
LabelsHavePayloads(payloads, labels) == \A i \in 1..Len(labels) : \A j \in 1..Len(labels[i]) : labels[i][j] < Len(payloads)

\* search_batch of the hnswlib index, after knn_query answered r.
hnsw_search_batch_found(self, r) == IF ~r.ok THEN [SearchRaised EXCEPT !.backend_calls = 1] ELSE IF ~LabelsHavePayloads(self.payloads, r.labels) THEN [SearchRaised EXCEPT !.backend_calls = 1] ELSE [backend_calls |-> 1, ids |-> r.labels, neighbors |-> [i \in 1..Len(r.labels) |-> RowPayloads(self.payloads, r.labels[i])], ok |-> TRUE, scores |-> MaskScores(Similarities(r.distances), r.labels)]

\* VectorIndex.search_batch(query_vecs, k) of the hnswlib index: k <= 0 is
\* answered before the shape of query_vecs is looked at.
hnsw_search_batch(self, query_vecs, k) == IF k <= 0 THEN SearchNothing(IF query_vecs.ndim = 2 THEN Len(query_vecs.rows) ELSE 0) ELSE IF query_vecs.ndim # 2 \/ query_vecs.cols # self.dim THEN SearchRaised ELSE hnsw_search_batch_found(self, hnsw_knn_query(self, query_vecs, k))

\* What a single-query search returns: the (payload, score) pairs, and the
\* calls it made itself.
SearchResult(ok, pairs, own_calls) == [calls |-> own_calls, ok |-> ok, pairs |-> pairs]

\* The loop of the hnswlib search over zip(labels[0], distances[0]).
RECURSIVE hnsw_row_pairs(_, _, _)
hnsw_row_pairs(payloads, row_labels, row_distances) == IF row_labels = <<>> THEN <<>> ELSE IF Head(row_labels) < 0 THEN hnsw_row_pairs(payloads, Tail(row_labels), Tail(row_distances)) ELSE <<[payload |-> payloads[Head(row_labels) + 1], score |-> Scale - Head(row_distances)]>> \o hnsw_row_pairs(payloads, Tail(row_labels), Tail(row_distances))

\* search of the hnswlib index, after its own knn_query answered r.
hnsw_search_found(self, r) == IF ~r.ok THEN SearchResult(FALSE, <<>>, <<Call("knn_query", 1)>>) ELSE IF ~LabelsHavePayloads(self.payloads, r.labels) THEN SearchResult(FALSE, <<>>, <<Call("knn_query", 1)>>) ELSE SearchResult(TRUE, hnsw_row_pairs(self.payloads, r.labels[1], r.distances[1]), <<Call("knn_query", 1)>>)

\* np.asarray(query_vec).reshape(1, -1)
ReshapeOneRow(flat) == Matrix(<<flat>>, Len(flat))

\* VectorIndex.search(query_vec, k) of the hnswlib index.
hnsw_search(self, query_vec, k) == IF k <= 0 THEN SearchResult(TRUE, <<>>, <<>>) ELSE hnsw_search_found(self, hnsw_knn_query(self, ReshapeOneRow(FlatConcat(query_vec.rows)), k))

\* ------------------------------------------------------------ VectorIndex.search (index.py)
\* _as_float32_vector(x, dim): flattened, ValueError unless of length dim.
as_float32_vector(x, dim) == [ok |-> Len(FlatConcat(x.rows)) = dim, v |-> FlatConcat(x.rows)]

\* search, after search_batch returned sb: row 0 unpacked, aligned by min length.
search_unpacked(sb) == IF ~sb.ok THEN SearchResult(FALSE, <<>>, <<Call("search_batch", 1)>>) ELSE SearchResult(TRUE, [i \in 1..Min2(Len(sb.neighbors[1]), Len(sb.scores[1])) |-> [payload |-> sb.neighbors[1][i], score |-> sb.scores[1][i]]], <<Call("search_batch", 1)>>)

\* search, after the conversion of query_vec.
search_converted(self, q, k) == IF ~q.ok THEN SearchResult(FALSE, <<>>, <<>>) ELSE search_unpacked(search_batch(self, ReshapeOneRow(q.v), k))

\* VectorIndex.search(query_vec, k) of the FAISS index.
search(self, query_vec, k) == IF k <= 0 THEN SearchResult(TRUE, <<>>, <<>>) ELSE search_converted(self, as_float32_vector(query_vec, self.dim), k)

\* ------------------------------------------------------------ list.sort
InsertAt(sorted, x, p) == SubSeq(sorted, 1, p) \o <<x>> \o SubSeq(sorted, p + 1, Len(sorted))

\* Variant of InsertDesc: x goes in front of the entries with an equal key.
InsertDesc_unstable(sorted, x) == InsertAt(sorted, x, Cardinality({i \in 1..Len(sorted) : sorted[i].item.max_score > x.item.max_score}))

\* Where x goes in a list sorted by descending key: behind every entry whose
\* key is not smaller (list.sort(key=..., reverse=True) keeps equal keys in order).
InsertDesc(sorted, x) == InsertAt(sorted, x, Cardinality({i \in 1..Len(sorted) : sorted[i].item.max_score >= x.item.max_score}))

RECURSIVE sort_by_max_score_reverse(_)
sort_by_max_score_reverse(s) == IF s = <<>> THEN <<>> ELSE InsertDesc(sort_by_max_score_reverse(SubSeq(s, 1, Len(s) - 1)), s[Len(s)])

\* ------------------------------------------------------------ SubgraphSimilarityFilter
\* No index object.
NoIndex == [backend |-> "none", dim |-> 0, index |-> <<>>, max_elements |-> 0, payloads |-> <<>>]

\* build_index, step 4: index.add(vectors, relations); return index.
BuildAdded(a, vectors, n) == [calls |-> <<Call("encode", n), Call("create", n), Call("add", n)>>, index |-> IF a.ok THEN a.self ELSE NoIndex, ok |-> a.ok, vectors |-> vectors]

\* Variant of BuildEncoded: the relations are stored as payloads in reverse order.
BuildEncoded_reversed(relations, vectors) == BuildAdded(add(create(EncoderDim, Len(relations)), vectors, [i \in 1..Len(relations) |-> relations[Len(relations) + 1 - i]]), vectors, Len(relations))

\* build_index, steps 1 to 3: texts, vectors, a fresh index sized len(relations).
BuildEncoded(relations, vectors) == BuildAdded(add(create(EncoderDim, Len(relations)), vectors, relations), vectors, Len(relations))

BuildFrom(relations, texts) == BuildEncoded(relations, encode(texts))

\* Variant of build_index: no check for an empty relations sequence.
build_index_unguarded(relations) == BuildFrom(relations, [i \in 1..Len(relations) |-> relation_to_text(relations[i])])

\* build_index(relations) of a filter whose encoder is enc: ValueError on no
\* relations, else encode, create, add.
build_index_with(enc, secret, relations) == IF relations = <<>> THEN [calls |-> <<>>, index |-> NoIndex, ok |-> FALSE, vectors |-> Matrix(<<>>, EncoderDim)] ELSE BuildEncoded(relations, EncodeWith(enc, secret, [i \in 1..Len(relations) |-> relation_to_text(relations[i])]))

\* build_index(relations) of the filter with the sentence-transformer encoder.
build_index(relations) == build_index_with("SentenceTransformerEncoder", 0, relations)

\* Variant of MaxScores: a row without scores counts as the lowest cosine, -1.
MaxScores_lowest(scores, num_q) == IF num_q = 0 \/ Len(scores[1]) = 0 THEN [i \in 1..num_q |-> -Scale] ELSE [i \in 1..Len(scores) |-> SeqMax(scores[i])]

\* Step 4: max_scores, zeros when the score matrix has no element.
MaxScores(scores, num_q) == IF num_q = 0 \/ Len(scores[1]) = 0 THEN [i \in 1..num_q |-> 0] ELSE [i \in 1..Len(scores) |-> SeqMax(scores[i])]

\* Variant of KeepMask: keep only what lies strictly above the threshold.
KeepMask_strict(max_scores, threshold) == [i \in 1..Len(max_scores) |-> max_scores[i] > threshold]

\* Step 5: keep_mask = max_scores >= threshold
KeepMask(max_scores, threshold) == [i \in 1..Len(max_scores) |-> max_scores[i] >= threshold]

\* Step 6, kept branch: the KeptQuality of one input, neighbors aligned by min length.
KeptItem(q, ms, neighs, row_scores) == [max_score |-> ms, neighbors |-> [j \in 1..Min2(Len(neighs), Len(row_scores)) |-> [relation |-> neighs[j], score |-> row_scores[j]]], quality |-> q]

\* Step 6, dropped branch.
DroppedItem(q, ms) == [max_score |-> ms, quality |-> q]

\* Step 6: one entry per input position, in input order.
Assemble(qualities, sb, max_scores, keep_mask) == [i \in 1..Len(qualities) |-> [item |-> IF keep_mask[i] THEN KeptItem(qualities[i], max_scores[i], sb.neighbors[i], sb.scores[i]) ELSE DroppedItem(qualities[i], max_scores[i]), keep |-> keep_mask[i], pos |-> i]]

IsKeptEntry(e) == e.keep

IsDroppedEntry(e) == ~e.keep

ItemOf(entries) == [i \in 1..Len(entries) |-> entries[i].item]

PosOf(entries) == [i \in 1..Len(entries) |-> entries[i].pos]

\* save_similarity_results_json(kept, dropped): one file written under logs/.
save_similarity_results_json(kept, dropped) == [calls |-> <<Call("write_json", Len(kept) + Len(dropped))>>, files |-> 1]

\* The two sorts, the log file, the return value.
FilterReturn(kept, dropped, max_scores, calls, saved) == [calls |-> calls \o saved.calls, dropped |-> ItemOf(dropped), dropped_pos |-> PosOf(dropped), files |-> saved.files, kept |-> ItemOf(kept), kept_pos |-> PosOf(kept), max_scores |-> max_scores, ok |-> TRUE]

FilterSorted(kept, dropped, max_scores, calls) == FilterReturn(kept, dropped, max_scores, calls, save_similarity_results_json(kept, dropped))

FilterAssembled(entries, max_scores, calls) == FilterSorted(sort_by_max_score_reverse(SelectSeq(entries, IsKeptEntry)), sort_by_max_score_reverse(SelectSeq(entries, IsDroppedEntry)), max_scores, calls)

FilterScored(th, qualities, sb, max_scores, calls) == FilterAssembled(Assemble(qualities, sb, max_scores, KeepMask(max_scores, th)), max_scores, calls)

\* What filter_qualities leaves when it raises.
FilterRaised(calls) == [calls |-> calls, dropped |-> <<>>, dropped_pos |-> <<>>, files |-> 0, kept |-> <<>>, kept_pos |-> <<>>, max_scores |-> <<>>, ok |-> FALSE]

\* The calls search_batch passed on to the backend's own search (index.search).
BackendCalls(sb, n) == IF sb.backend_calls = 0 THEN <<>> ELSE <<Call("faiss.search", n)>>

\* filter_qualities after the one search_batch call.
FilterSearched(th, qualities, sb, calls) == IF ~sb.ok THEN FilterRaised(calls) ELSE FilterScored(th, qualities, sb, MaxScores(sb.scores, Len(qualities)), calls \o BackendCalls(sb, Len(qualities)))

\* index.search_batch(vectors_np, k=self.top_k), as a recorded call.
SearchBatchCall(n, k) == [fn |-> "search_batch", k |-> k, n |-> n]

\* Variant of filter_qualities: one index.search call per quality instead of one batch.
filter_qualities_per_item(k, th, index, qualities) == IF qualities = <<>> THEN [calls |-> <<>>, dropped |-> <<>>, dropped_pos |-> <<>>, files |-> 0, kept |-> <<>>, kept_pos |-> <<>>, max_scores |-> <<>>, ok |-> TRUE] ELSE FilterSearched(th, qualities, search_batch(index, encode([i \in 1..Len(qualities) |-> quality_to_text(qualities[i])]), k), <<Call("encode", Len(qualities))>> \o [i \in 1..Len(qualities) |-> Call("search", 1)])

\* Variant of filter_qualities: no early return for an empty qualities list.
filter_qualities_unguarded(k, th, index, qualities) == FilterSearched(th, qualities, search_batch(index, encode([i \in 1..Len(qualities) |-> quality_to_text(qualities[i])]), k), <<Call("encode", Len(qualities)), SearchBatchCall(Len(qualities), k)>>)

\* filter_qualities(index, qualities) of a filter with fields top_k = k, threshold = th.
\* kept_pos / dropped_pos give, for each returned item, its position in the
\* input; max_scores is the vector of step 4; files counts the log files written.
filter_qualities_with(enc, secret, k, th, index, qualities) == IF qualities = <<>> THEN [calls |-> <<>>, dropped |-> <<>>, dropped_pos |-> <<>>, files |-> 0, kept |-> <<>>, kept_pos |-> <<>>, max_scores |-> <<>>, ok |-> TRUE] ELSE FilterSearched(th, qualities, search_batch(index, EncodeWith(enc, secret, [i \in 1..Len(qualities) |-> quality_to_text(qualities[i])]), k), <<Call("encode", Len(qualities)), SearchBatchCall(Len(qualities), k)>>)

\* filter_qualities of the filter with the sentence-transformer encoder.
filter_qualities(k, th, index, qualities) == filter_qualities_with("SentenceTransformerEncoder", 0, k, th, index, qualities)

\* ------------------------------------------------------------ state
\* top_k, threshold: the filter's fields.  index: the VectorIndex in use.
\* pc: where the run is.  op, args, ret: the last call, its arguments, what it
\* returned (ok = FALSE: it raised).  calls: the collaborator calls the last
\* call made, in order.  log_files: files written under logs/.
\* supplied: the (vector, item) pairs the successful add calls were given.
VARIABLES top_k, threshold, index, pc, op, args, ret, calls, log_files, supplied

vars == <<top_k, threshold, index, pc, op, args, ret, calls, log_files, supplied>>

\* The (vector, item) pairs of one add call.
Pairs(rows, items) == [i \in 1..Len(items) |-> [item |-> items[i], vec |-> rows[i]]]

\* Values of the filter's top_k field.
TopKs == (-1)..MaxTopK

\* Values of the filter's threshold field.
Thresholds == {-(Scale \div 2), 0, (71 * Scale) \div 100}

\* A SubgraphSimilarityFilter has been constructed; nothing has been called.
Init == /\ top_k \in TopKs /\ threshold \in Thresholds /\ index = NoIndex /\ pc = "new" /\ op = "none" /\ args = <<>> /\ ret = [ok |-> TRUE] /\ calls = <<>> /\ log_files = 0 /\ supplied = <<>>

\* filt.build_index(relations)
BuildIndex(relations) == /\ pc = "new" /\ \E r \in {build_index(relations)} : /\ index' = (IF r.ok THEN r.index ELSE index) /\ pc' = (IF r.ok THEN "built" ELSE "failed") /\ ret' = [ok |-> r.ok] /\ calls' = r.calls /\ op' = "build_index" /\ args' = relations /\ supplied' = (IF r.ok THEN Pairs(r.vectors.rows, relations) ELSE supplied) /\ UNCHANGED <<top_k, threshold, log_files>>

\* filt.filter_qualities(index=index, qualities=qualities)
FilterQualities(qualities) == /\ pc = "built" /\ \E r \in {filter_qualities(top_k, threshold, index, qualities)} : /\ ret' = [dropped |-> r.dropped, dropped_pos |-> r.dropped_pos, kept |-> r.kept, kept_pos |-> r.kept_pos, max_scores |-> r.max_scores, ok |-> r.ok] /\ calls' = r.calls /\ log_files' = log_files + r.files /\ pc' = (IF r.ok THEN "filtered" ELSE "failed") /\ op' = "filter_qualities" /\ args' = qualities /\ UNCHANGED <<top_k, threshold, index, supplied>>

Next ==
    \/ (\E relations \in SeqsUpTo(Relations, MaxRelations) : BuildIndex(relations))
    \/ (\E qualities \in SeqsUpTo(Qualities, MaxQualities) : FilterQualities(qualities))

Spec == Init /\ [][Next]_vars

\* ------------------------------------------------------------ claims on the filter
\* filter_qualities has returned for a non-empty qualities list.
Filtered == op = "filter_qualities" /\ args # <<>> /\ ret.ok

\* C1: threshold partition.  After filter_qualities on a non-empty list every
\* input position is in exactly one of kept and dropped, it is in kept exactly
\* when its max_score >= threshold (so every dropped item has max_score <
\* threshold), each item carries the quality and max_score of its position, and
\* len(kept) + len(dropped) = len(qualities).
C1_ThresholdPartition == Filtered =>
    /\ Len(ret.kept) + Len(ret.dropped) = Len(args)
    /\ Len(ret.max_scores) = Len(args)
    /\ Range(ret.kept_pos) \cup Range(ret.dropped_pos) = 1..Len(args)
    /\ Range(ret.kept_pos) \cap Range(ret.dropped_pos) = {}
    /\ Cardinality(Range(ret.kept_pos)) = Len(ret.kept)
    /\ Cardinality(Range(ret.dropped_pos)) = Len(ret.dropped)
    /\ \A p \in 1..Len(args) : (p \in Range(ret.kept_pos)) <=> (ret.max_scores[p] >= threshold)
    /\ \A i \in 1..Len(ret.kept) : ret.kept[i].quality = args[ret.kept_pos[i]] /\ ret.kept[i].max_score = ret.max_scores[ret.kept_pos[i]] /\ ret.kept[i].max_score >= threshold
    /\ \A i \in 1..Len(ret.dropped) : ret.dropped[i].quality = args[ret.dropped_pos[i]] /\ ret.dropped[i].max_score = ret.max_scores[ret.dropped_pos[i]] /\ ret.dropped[i].max_score < threshold

\* A call that kept one quality and dropped another, one of them exactly at the threshold.
C1_Witness == Filtered /\ ret.kept # <<>> /\ ret.dropped # <<>> /\ \E i \in 1..Len(ret.kept) : ret.kept[i].max_score = threshold

\* The scores of a neighbors list.
NeighborScores(item) == [j \in 1..Len(item.neighbors) |-> item.neighbors[j].score]

\* C2 as claimed: every KeptQuality with a non-empty neighbors list has
\* max_score = max(n.score for n in neighbors) and max_score >= threshold,
\* whatever the index size and the threshold.
C2_MaxScoreIsBestNeighbor == Filtered => \A i \in 1..Len(ret.kept) : ret.kept[i].neighbors # <<>> => (ret.kept[i].max_score = SeqMax(NeighborScores(ret.kept[i])) /\ ret.kept[i].max_score >= threshold)

\* C3: sort invariant.  kept and dropped are each non-increasing in max_score,
\* and two items of one list with equal max_score are in the order their
\* qualities had in the input.
C3_SortedStable == Filtered =>
    /\ \A i, j \in 1..Len(ret.kept) : i < j => (ret.kept[i].max_score >= ret.kept[j].max_score /\ (ret.kept[i].max_score = ret.kept[j].max_score => ret.kept_pos[i] < ret.kept_pos[j]))
    /\ \A i, j \in 1..Len(ret.dropped) : i < j => (ret.dropped[i].max_score >= ret.dropped[j].max_score /\ (ret.dropped[i].max_score = ret.dropped[j].max_score => ret.dropped_pos[i] < ret.dropped_pos[j]))

\* A call whose sort moved a later input in front of an earlier one, and one
\* whose kept list holds two different qualities with the same max_score.
C3_Witness == Filtered /\ Len(ret.kept) = 2 /\ ((ret.kept_pos = <<2, 1>> /\ ret.kept[1].max_score > ret.kept[2].max_score) \/ (ret.kept[1].max_score = ret.kept[2].max_score /\ ret.kept[1].quality # ret.kept[2].quality))

\* C6 as claimed: every KeptQuality has at most min(top_k, number of relations
\* in the index) neighbors.
C6_TopKBound == Filtered => \A i \in 1..Len(ret.kept) : Len(ret.kept[i].neighbors) <= Min2(top_k, Len(index.payloads))

\* C6 amended: every KeptQuality has at most max(0, min(top_k, number of
\* relations in the index)) neighbors: at most min(top_k, N) when top_k >= 0,
\* none when top_k < 0.
C6_TopKBoundFromZero == Filtered => \A i \in 1..Len(ret.kept) : Len(ret.kept[i].neighbors) <= Max2(0, Min2(top_k, Len(index.payloads)))

\* A kept quality on an index smaller than top_k: the index size is the bound reached.
C6_Witness == Filtered /\ Len(index.payloads) < top_k /\ \E i \in 1..Len(ret.kept) : Len(ret.kept[i].neighbors) = Len(index.payloads)

\* C8: fatal precondition.  build_index of an empty relations sequence raises
\* before the encoder is called and before an index is created; a build_index
\* that returns never returns an index without entries.
C8_EmptyRelationsRejected == op = "build_index" =>
    /\ args = <<>> => (~ret.ok /\ calls = <<>> /\ index = NoIndex /\ pc = "failed")
    /\ ret.ok => (Len(index.payloads) >= 1 /\ Len(index.index) >= 1)

\* build_index([]) has been called.
C8_Witness == op = "build_index" /\ args = <<>> /\ pc = "failed"

\* C9: empty-input idempotence.  filter_qualities(index, []) returns ([], [])
\* without calling the encoder or the index and leaves the index as it was.
C9_EmptyQualities == [][(op' = "filter_qualities" /\ args' = <<>>) => (ret'.ok /\ ret'.kept = <<>> /\ ret'.dropped = <<>> /\ calls' = <<>> /\ index' = index /\ log_files' = log_files)]_vars

\* filter_qualities(index, []) has been called on a built index.
C9_Witness == op = "filter_qualities" /\ args = <<>> /\ Len(index.payloads) >= 1 /\ ret.ok

\* C10 as claimed: build_index and filter_qualities change nothing outside
\* their return value and the index they build; in particular no file is written.
C10_NoFileWritten == (op \in {"build_index", "filter_qualities"}) => (log_files = 0 /\ \A i \in 1..Len(calls) : calls[i].fn # "write_json")

\* ------------------------------------------------------------ the index API
\* Payloads, vectors and arrays the index API run supplies.
Items == {Rel_bias, Rel_drift}

\* Item lists of n items, alternating from one item of the set.
ItemLists == {[i \in 1..n |-> IF i % 2 = 1 THEN first ELSE CHOOSE it \in Items : it # first] : n \in 0..MaxAddRows, first \in Items}

\* The i-th vector handed to add, and the i-th query vector.
AddVec(i) == IF i % 2 = 1 THEN <<-Scale, -Scale>> ELSE <<Scale, 0>>

QueryVec(i) == IF i % 3 = 1 THEN <<2 * Scale, 0>> ELSE IF i % 3 = 2 THEN <<0, 0>> ELSE <<-Scale, Scale>>

\* Arrays of another shape than (N, EncoderDim): one column, and one dimension.
OddArrays == {Matrix(<<<<Scale>>>>, EncoderDim - 1), Vector1D(<<Scale, 0>>)}

\* One row that is exactly zero.
ZeroRowArray == Matrix(<<[j \in 1..EncoderDim |-> 0]>>, EncoderDim)

AddArrays == {Matrix([i \in 1..n |-> AddVec(i)], EncoderDim) : n \in 0..MaxAddRows} \cup OddArrays \cup {ZeroRowArray}

QueryArrays == {Matrix([i \in 1..n |-> QueryVec(i)], EncoderDim) : n \in 0..MaxQualities} \cup OddArrays

\* No index has been created.
IndexInit == /\ top_k = 0 /\ threshold = 0 /\ index = NoIndex /\ pc = "none" /\ op = "none" /\ args = <<>> /\ ret = [ok |-> TRUE] /\ calls = <<>> /\ log_files = 0 /\ supplied = <<>>

\* VectorIndex.create(dim=dim, max_elements=MaxIndexSize) of either module.
IxCreate(backend, dim) == /\ pc = "none" /\ index' = (IF backend = "faiss" THEN create(dim, MaxIndexSize) ELSE hnsw_create(dim, MaxIndexSize)) /\ pc' = "open" /\ op' = "create" /\ args' = <<dim, MaxIndexSize>> /\ ret' = [ok |-> TRUE] /\ supplied' = <<>> /\ UNCHANGED <<top_k, threshold, calls, log_files>>

\* index.add(vectors, items)
IxAdd(vectors, items) == /\ pc = "open" /\ (index.backend = "faiss" => Len(index.payloads) + Len(items) <= MaxIndexSize) /\ \E r \in {IF index.backend = "faiss" THEN add(index, vectors, items) ELSE hnsw_add(index, vectors, items)} : /\ index' = r.self /\ ret' = [ok |-> r.ok] /\ supplied' = (IF r.ok THEN supplied \o Pairs(vectors.rows, items) ELSE supplied) /\ op' = "add" /\ args' = <<vectors, items>> /\ UNCHANGED <<top_k, threshold, pc, calls, log_files>>

\* index.search_batch(queries, k): the first query on the index.
IxSearchBatch(queries, k) == /\ pc = "open" /\ \E r \in {IF index.backend = "faiss" THEN search_batch(index, queries, k) ELSE hnsw_search_batch(index, queries, k)} : /\ ret' = r /\ pc' = "queried" /\ op' = "search_batch" /\ args' = <<queries, k>> /\ UNCHANGED <<top_k, threshold, index, calls, log_files, supplied>>

\* Single query vectors: of length EncoderDim, and one of length EncoderDim - 1.
QueryVectors == {Vector1D(QueryVec(i)) : i \in 1..3} \cup {Vector1D(<<Scale>>)}

\* index.search(query_vec, k): the first query on the index.
IxSearch(query_vec, k) == /\ pc = "open" /\ \E r \in {IF index.backend = "faiss" THEN search(index, query_vec, k) ELSE hnsw_search(index, query_vec, k)} : /\ ret' = [ok |-> r.ok, pairs |-> r.pairs] /\ calls' = r.calls /\ pc' = "queried" /\ op' = "search" /\ args' = <<query_vec, k>> /\ UNCHANGED <<top_k, threshold, index, log_files, supplied>>

IndexNext ==
    \/ (\E backend \in {"faiss", "hnswlib"}, dim \in {EncoderDim - 1, EncoderDim} : IxCreate(backend, dim))
    \/ (\E vectors \in AddArrays, items \in ItemLists : IxAdd(vectors, items))
    \/ (\E queries \in QueryArrays, k \in TopKs : IxSearchBatch(queries, k))
    \/ (\E query_vec \in QueryVectors, k \in TopKs : IxSearch(query_vec, k))

IndexSpec == IndexInit /\ [][IndexNext]_vars

\* ------------------------------------------------------------ claims on the index
\* Entry i of the index is the i-th pair supplied: its payload is the item, its
\* stored vector the unit-length form of the vector that came with the item.
PayloadsMatchVectors ==
    /\ Len(index.payloads) = Len(index.index)
    /\ Len(index.payloads) = Len(supplied)
    /\ \A i \in 1..Len(supplied) : index.payloads[i] = supplied[i].item /\ index.index[i] = l2_normalize_row(supplied[i].vec)

\* An id keeps its payload and its vector for as long as the index lives.
IdsKeepTheirPayload == op' # "create" => (Len(index'.payloads) >= Len(index.payloads) /\ \A i \in 1..Len(index.payloads) : index'.payloads[i] = index.payloads[i] /\ index'.index[i] = index.index[i])

\* C4: after any sequence of add calls, accepted or rejected, the index holds
\* as many payloads as vectors, the ids are 0..len(payloads)-1 in insertion
\* order across the calls, payloads[i] is the item supplied with the i-th stored
\* vector, and an id never changes its payload.
C4_SequentialStableIds == []PayloadsMatchVectors /\ [][IdsKeepTheirPayload]_vars

\* The arguments of a search_batch call are (queries, k) with queries of shape (Q, dim).
WellShaped(arr) == arr.ndim = 2 /\ arr.cols = index.dim

\* C5: under-fill.  search_batch with k > 0 on an index of N < k entries does
\* not raise, returns N payloads for every query and a score matrix of shape
\* (Q, k), and every slot whose backend id is negative has score exactly 0.
C5_UnderFill == (op = "search_batch" /\ index.backend = "faiss" /\ WellShaped(args[1]) /\ args[2] > 0 /\ Len(index.payloads) < args[2]) =>
    /\ ret.ok
    /\ Len(ret.neighbors) = Len(args[1].rows)
    /\ Len(ret.scores) = Len(args[1].rows)
    /\ \A i \in 1..Len(args[1].rows) : Len(ret.neighbors[i]) = Len(index.payloads) /\ Len(ret.scores[i]) = args[2] /\ \A j \in 1..args[2] : ret.ids[i][j] < 0 => ret.scores[i][j] = 0

\* One entry indexed, more neighbors asked for than it has, at least one query.
C5_Witness == op = "search_batch" /\ index.backend = "faiss" /\ ret.ok /\ Len(index.payloads) = 1 /\ args[2] = MaxTopK /\ Len(args[1].rows) >= 1 /\ Len(ret.neighbors[1]) = 1

\* The precondition of add on the index as it is, for the arguments (vectors, items).
AddShapesOk(ix, a) == a[1].ndim = 2 /\ a[1].cols = ix.dim /\ Len(a[1].rows) = Len(a[2])

\* C7: add with vectors of another width than dim, not 2-dimensional, or of
\* another length than items raises and leaves the index as it was.
C7_RejectedAddChangesNothing == [][(op' = "add" /\ ~AddShapesOk(index, args')) => (~ret'.ok /\ index' = index)]_vars

\* A rejected add on an index that holds entries, more vectors than items.
C7_Witness == op = "add" /\ ~ret.ok /\ Len(index.payloads) >= 1 /\ args[1].ndim = 2 /\ args[1].cols = index.dim /\ Len(args[1].rows) > Len(args[2])

\* ------------------------------------------------------------ further claims on the filter
\* The positions in calls of the calls named fn.
CallsTo(fn) == {i \in 1..Len(calls) : calls[i].fn = fn}

\* C11: a filter_qualities call on a non-empty list makes exactly one
\* encoder.encode call and exactly one index.search_batch call, with
\* k = top_k, the encode call first, and no per-item index.search call,
\* whatever the number of qualities.
C11_OneEncodeOneSearchBatch == (op = "filter_qualities" /\ args # <<>>) =>
    /\ Cardinality(CallsTo("encode")) = 1
    /\ Cardinality(CallsTo("search_batch")) = 1
    /\ CallsTo("search") = {}
    /\ \A i \in CallsTo("encode"), j \in CallsTo("search_batch") : i < j /\ calls[i].n = Len(args) /\ calls[j].n = Len(args) /\ calls[j].k = top_k

\* A call on as many qualities as the run allows, which returned.
C11_Witness == op = "filter_qualities" /\ Len(args) = MaxQualities /\ ret.ok /\ top_k >= 1 /\ CallsTo("search_batch") # {}

\* ------------------------------------------------------------ further claims on the index
\* C12: search_batch(queries, k) with queries of shape (Q, dim) and k <= 0
\* returns Q empty neighbor lists and a score matrix of shape (Q, 0), and does
\* not invoke the backend search; on either index.
C12_NonPositiveK == (op = "search_batch" /\ WellShaped(args[1]) /\ args[2] <= 0) =>
    /\ ret.ok
    /\ ret.backend_calls = 0
    /\ Len(ret.neighbors) = Len(args[1].rows)
    /\ Len(ret.scores) = Len(args[1].rows)
    /\ \A i \in 1..Len(args[1].rows) : ret.neighbors[i] = <<>> /\ ret.scores[i] = <<>>

\* k <= 0 asked of an index that holds entries, with at least two queries.
C12_Witness == op = "search_batch" /\ args[2] <= 0 /\ WellShaped(args[1]) /\ Len(args[1].rows) >= 2 /\ Len(index.payloads) >= 1 /\ ret.ok

\* C13: with top_k <= 0, filter_qualities on a non-empty list raises nothing,
\* never reaches the backend search, gives every quality max_score 0, keeps
\* every quality when threshold <= 0 and none otherwise, and every kept item
\* has an empty neighbors list.
C13_NonPositiveTopK == (op = "filter_qualities" /\ args # <<>> /\ top_k <= 0) =>
    /\ ret.ok
    /\ CallsTo("faiss.search") = {}
    /\ Len(ret.max_scores) = Len(args)
    /\ \A i \in 1..Len(args) : ret.max_scores[i] = 0
    /\ \A i \in 1..Len(ret.kept) : ret.kept[i].neighbors = <<>> /\ ret.kept[i].max_score = 0
    /\ \A i \in 1..Len(ret.dropped) : ret.dropped[i].max_score = 0
    /\ (threshold <= 0 => Len(ret.kept) = Len(args))
    /\ (threshold > 0 => ret.kept = <<>>)

\* top_k below zero, a threshold that keeps, several qualities.
C13_Witness == op = "filter_qualities" /\ top_k < 0 /\ threshold <= 0 /\ Len(args) >= 2 /\ ret.ok /\ Len(ret.kept) = Len(args)

\* top_k zero and a threshold above zero: everything is dropped.
C13_WitnessDropped == op = "filter_qualities" /\ top_k = 0 /\ threshold > 0 /\ Len(args) >= 1 /\ ret.ok /\ Len(ret.dropped) = Len(args)

\* search_batch of the index in use, called with the single-row matrix [q].
BatchOfOne(ix, q, k) == IF ix.backend = "faiss" THEN search_batch(ix, ReshapeOneRow(FlatConcat(q.rows)), k) ELSE hnsw_search_batch(ix, ReshapeOneRow(FlatConcat(q.rows)), k)

\* Row 0 of the neighbors paired with row 0 of the scores.
PairsOfRow0(sb) == [j \in 1..Min2(Len(sb.neighbors[1]), Len(sb.scores[1])) |-> [payload |-> sb.neighbors[1][j], score |-> sb.scores[1][j]]]

\* What search returned is what search_batch gives for [q]: both raise, or the pairs are equal.
SameAsBatch(r, sb) == r.ok = sb.ok /\ (sb.ok => r.pairs = PairsOfRow0(sb))

\* The query vector of the last search call has the length of the index's dim.
QueryFits == Len(FlatConcat(args[1].rows)) = index.dim

\* C14, the returned values only: for a query vector of length dim and any k,
\* search(q, k) returns the pairs search_batch([q], k) gives in row 0.
C14_SearchEqualsBatchRow0 == (op = "search" /\ QueryFits) => SameAsBatch(ret, BatchOfOne(index, args[1], args[2]))

\* C14 as claimed: search(q, k) returns the pairs of search_batch([q], k), and
\* does so as a wrapper: the only call it makes is search_batch, it asks the
\* backend nothing itself and so normalizes and masks nothing of its own.
C14_SearchIsWrapper == (op = "search" /\ QueryFits) =>
    /\ SameAsBatch(ret, BatchOfOne(index, args[1], args[2]))
    /\ \A i \in 1..Len(calls) : calls[i].fn = "search_batch"

\* A search on the FAISS index that found fewer neighbors than asked for.
C14_Witness == op = "search" /\ index.backend = "faiss" /\ QueryFits /\ ret.ok /\ Len(ret.pairs) >= 1 /\ Len(ret.pairs) < args[2]

\* C15: build_index on n >= 1 relations makes exactly one encode call, on the
\* n relation sentences, creates a fresh index with capacity hint n, and
\* returns an index whose payloads are the relations in input order, the
\* vector with id i being the (unit-length) embedding of
\* relation_to_text(relations[i]).
C15_BuildIndexKeepsOrder == (op = "build_index" /\ args # <<>>) =>
    /\ ret.ok
    /\ calls = <<Call("encode", Len(args)), Call("create", Len(args)), Call("add", Len(args))>>
    /\ index.payloads = args
    /\ Len(index.index) = Len(args)
    /\ \A i \in 1..Len(args) : index.index[i] = l2_normalize_row(EmbeddingOf(relation_to_text(args[i])))

\* An index built from as many relations as the run allows, not all the same.
C15_Witness == op = "build_index" /\ ret.ok /\ Len(args) = MaxRelations /\ args[1] # args[Len(args)] /\ index.index[1] # index.index[Len(args)]

\* ------------------------------------------------------------ two runs of the filter
\* Hash secrets of the interpreter processes the runs are made in.
HashSecrets == {0, 1}

Encoders == {"SentenceTransformerEncoder", "DummyEncoder"}

\* The relations and qualities of a run: the first n of a fixed list.
RunRelations == {[i \in 1..n |-> IF i % 2 = 1 THEN Rel_bias ELSE Rel_drift] : n \in 1..MaxRelations}

RunQualities == {[i \in 1..n |-> IF i % 2 = 1 THEN Q_bias ELSE Q_weather] : n \in 0..MaxQualities}

\* What one run returns: (kept, dropped), or the error of build_index.
RunFiltered(r) == [dropped |-> r.dropped, kept |-> r.kept, ok |-> r.ok]

RunBuilt(enc, secret, k, th, b, qualities) == IF ~b.ok THEN [dropped |-> <<>>, kept |-> <<>>, ok |-> FALSE] ELSE RunFiltered(filter_qualities_with(enc, secret, k, th, b.index, qualities))

\* One run: index = filt.build_index(relations); filt.filter_qualities(index, qualities).
Run(enc, secret, k, th, relations, qualities) == RunBuilt(enc, secret, k, th, build_index_with(enc, secret, relations), qualities)

\* A filter configuration has been chosen; no run has been made.
TwoRunsInit == /\ top_k \in TopKs /\ threshold \in Thresholds /\ index = NoIndex /\ pc = "idle" /\ op = "none" /\ args = <<>> /\ ret = [ok |-> TRUE] /\ calls = <<>> /\ log_files = 0 /\ supplied = <<>>

\* Two independent runs on the same encoder class, relations and qualities,
\* the first in a process with hash secret s1, the second in one with s2.
RunTwice(enc, relations, qualities, s1, s2) == /\ pc = "idle" /\ pc' = "ran" /\ op' = "two_runs" /\ args' = [encoder |-> enc, qualities |-> qualities, relations |-> relations, secrets |-> <<s1, s2>>] /\ ret' = [first |-> Run(enc, s1, top_k, threshold, relations, qualities), second |-> Run(enc, s2, top_k, threshold, relations, qualities)] /\ UNCHANGED <<top_k, threshold, index, calls, log_files, supplied>>

TwoRunsNext ==
    \/ (\E enc \in Encoders, relations \in RunRelations, qualities \in RunQualities, s1 \in HashSecrets, s2 \in HashSecrets : RunTwice(enc, relations, qualities, s1, s2))

TwoRunsSpec == TwoRunsInit /\ [][TwoRunsNext]_vars

\* C16 as claimed: two independent runs of build_index + filter_qualities with
\* the same encoder, relations and qualities return identical kept and
\* dropped lists: same qualities, same max_score, same neighbors, same order.
C16_TwoRunsAgree == op = "two_runs" => ret.first = ret.second

\* C16 for the runs whose encoder does not depend on the process: they agree.
C16_TwoRunsAgreeFixedEncoding == (op = "two_runs" /\ (args.encoder = "SentenceTransformerEncoder" \/ args.secrets[1] = args.secrets[2])) => ret.first = ret.second

\* Two runs with kept and dropped items that agree.
C16_Witness == op = "two_runs" /\ args.encoder = "SentenceTransformerEncoder" /\ args.secrets[1] # args.secrets[2] /\ ret.first.ok /\ ret.first.kept # <<>> /\ ret.first.dropped # <<>> /\ ret.first = ret.second

\* ------------------------------------------------------------ relation_to_text on its own
Str__id == <<"_", "i", "d">>

Str_padded_sentence == <<" ", "b", "i", "a", "s", "_", "h", "u", "r", "t", "s", "_">>

Str_blank == <<" ">>

\* Labels and stored sentences relation_to_text is applied to.
TextLabels == {Str_Bias, Str_Fairness, Str_is_threat_to, Str_data_drift, Str_accuracy_, Str__id, Str_empty}

TextSentences == {Str_empty, Str_noise_sentence, Str_padded_sentence, Str_blank}

TextInit == /\ top_k = 0 /\ threshold = 0 /\ index = NoIndex /\ pc = "text" /\ op = "none" /\ args = <<>> /\ ret = [ok |-> TRUE] /\ calls = <<>> /\ log_files = 0 /\ supplied = <<>>

\* relation_to_text(r)
RelationToText(r) == /\ pc = "text" /\ op' = "relation_to_text" /\ args' = r /\ ret' = [ok |-> TRUE, text |-> relation_to_text(r)] /\ pc' = "texted" /\ UNCHANGED <<top_k, threshold, index, calls, log_files, supplied>>

TextNext ==
    \/ (\E s \in TextLabels, p \in TextLabels, o \in TextLabels, sent \in TextSentences : RelationToText(MkRelation(s, p, o, sent)))

TextSpec == TextInit /\ [][TextNext]_vars

\* The text with every underscore replaced by a space.
Spaced(s) == [i \in 1..Len(s) |-> IF s[i] = "_" THEN " " ELSE s[i]]

\* The text without the spaces at its two ends.
NonSpaceAt(s) == {i \in 1..Len(s) : s[i] # " "}

Trimmed(s) == IF NonSpaceAt(s) = {} THEN <<>> ELSE SubSeq(s, CHOOSE i \in NonSpaceAt(s) : \A j \in NonSpaceAt(s) : i <= j, CHOOSE i \in NonSpaceAt(s) : \A j \in NonSpaceAt(s) : i >= j)

\* The text with its first character in upper case.
FirstUpper(s) == IF s = <<>> THEN <<>> ELSE <<Upper(s[1])>> \o Tail(s)

StoredSentence == args.edge.properties.sentence

C17_WitnessSentence == op = "relation_to_text" /\ StoredSentence = Str_padded_sentence /\ args.source.label = Str__id /\ ret.text = <<"B", "i", "a", "s", " ", "h", "u", "r", "t", "s">>

\* C18: within every KeptQuality returned by filter_qualities the neighbors are
\* in similarity-descending order: neighbors[j].score >= neighbors[j+1].score.
C18_NeighborsDescending == Filtered => \A i \in 1..Len(ret.kept) : \A j \in 1..(Len(ret.kept[i].neighbors) - 1) : ret.kept[i].neighbors[j].score >= ret.kept[i].neighbors[j + 1].score

\* A kept quality with two neighbors of different scores, the better one being
\* the relation indexed second.
C18_Witness == Filtered /\ \E i \in 1..Len(ret.kept) : Len(ret.kept[i].neighbors) = 2 /\ ret.kept[i].neighbors[1].score > ret.kept[i].neighbors[2].score /\ ret.kept[i].neighbors[1].relation = index.payloads[2]

\* ------------------------------------------------------------ pipeline entry points
\* A Python tuple (a, b).
Tuple2(a, b) == [tuple |-> <<a, b>>]

\* Keyword parameters filter_qualities declares (self, *, index, qualities).
FilterQualitiesParams == {"index", "qualities"}

\* Keyword arguments api.py passes to filt.filter_qualities.
ApiPassedKeywords == {"cfg", "index", "qualities", "progress"}

\* Binding the keyword arguments of a call: a keyword the callee does not
\* declare raises TypeError before the body runs.
KeywordsBind(passed, declared) == passed \subseteq declared

Err_empty_relations == "ValueError: Cannot build vector index: 'relations' is empty."

Err_unexpected_keyword == "TypeError: filter_qualities() got an unexpected keyword argument 'cfg'"

Err_no_kg_relations == "ValueError: No KG relations retrieved for keyword"

Err_search == "ValueError: search_batch rejected the query matrix"

ApiRaised(error, made) == [calls |-> made, error |-> error, ok |-> FALSE, value |-> <<>>]

\* The Stage 3 log payload.
build_qualities_to_subgraph_similarity_payload(kept, dropped) == [dropped_qualities |-> dropped, kept_qualities |-> kept, num_dropped |-> Len(dropped), num_input_qualities |-> Len(kept) + Len(dropped), num_kept |-> Len(kept)]

\* return (kept, dropped), log_payload
ApiReturned(f, made) == IF ~f.ok THEN ApiRaised(Err_search, made \o f.calls) ELSE [calls |-> made \o f.calls, error |-> "None", ok |-> TRUE, value |-> Tuple2(Tuple2(f.kept, f.dropped), build_qualities_to_subgraph_similarity_payload(f.kept, f.dropped))]

\* kept, dropped = filt.filter_qualities(cfg=cfg, index=index, qualities=qualities, progress=progress)
ApiFiltered(passed, k, th, b, qualities) == IF ~KeywordsBind(passed, FilterQualitiesParams) THEN ApiRaised(Err_unexpected_keyword, b.calls) ELSE ApiReturned(filter_qualities(k, th, b.index, qualities), b.calls)

\* index = filt.build_index(kg_relations)
ApiBuilt(k, th, b, qualities) == IF ~b.ok THEN ApiRaised(Err_empty_relations, b.calls) ELSE ApiFiltered(ApiPassedKeywords, k, th, b, qualities)

filter_qualities_by_subgraph_similarity(kg_relations, qualities, k, th) == ApiBuilt(k, th, build_index(kg_relations), qualities)

\* Outcome of stages 3 and 4 of one run: handed lists the arguments
\* classify_qualities_novelty was called with.
PipelineRaised(error, made) == [calls |-> made, error |-> error, handed |-> <<>>, log |-> <<>>, ok |-> FALSE]

PipelineClassified(kept, log, made) == [calls |-> made \o <<Call("classify_qualities_novelty", 1)>>, error |-> "None", handed |-> <<kept>>, log |-> log, ok |-> TRUE]

\* kept, _dropped = filter_qualities_by_subgraph_similarity(...); classify_qualities_novelty(kept, ...)
cli_stages(r) == IF ~r.ok THEN PipelineRaised(r.error, r.calls) ELSE PipelineClassified(r.value.tuple[1], r.value.tuple[2], r.calls)

\* kbdebugger.pipeline.run.run_pipeline, stages 3 and 4.
cli_run_pipeline(kg_relations, qualities, k, th) == cli_stages(filter_qualities_by_subgraph_similarity(kg_relations, qualities, k, th))

\* (kept, dropped), subgraph_similarity_log = filter_qualities_by_subgraph_similarity(...); classify_qualities_novelty(kept, ...)
ui_stages(r) == IF ~r.ok THEN PipelineRaised(r.error, r.calls) ELSE PipelineClassified(r.value.tuple[1].tuple[1], r.value.tuple[2], r.calls)

\* ui.services.pipeline_runner.run_pipeline, stages 3 and 4.
ui_run_pipeline(kg_relations, qualities, k, th) == IF kg_relations = <<>> THEN PipelineRaised(Err_no_kg_relations, <<>>) ELSE ui_stages(filter_qualities_by_subgraph_similarity(kg_relations, qualities, k, th))

\* JobRecord as create_job registers it.
\* progress.current and progress.total are Optional[int]: <<>> is None, <<n>> is n.
JobRecord == [current |-> <<>>, error |-> "None", result |-> "None", stage |-> "Queued", state |-> "queued", total |-> <<>>]

set_running(rec) == [rec EXCEPT !.state = "running"]

\* Variant of set_done: the progress of the last stage is left in place.
set_done_keeping_progress(rec, result) == [rec EXCEPT !.state = "done", !.result = result]

set_done(rec, result) == [rec EXCEPT !.state = "done", !.result = result, !.stage = "Done", !.current = <<1>>, !.total = <<1>>]

set_error(rec, error) == [rec EXCEPT !.state = "error", !.error = error, !.stage = "Error", !.current = <<>>, !.total = <<>>]

\* update_progress: the four progress fields are assigned as passed.
update_progress(rec, stage, current, total) == [rec EXCEPT !.stage = stage, !.current = current, !.total = total]

\* init_stage passes current and total on to update_progress.
init_stage(rec, stage, current, total) == update_progress(rec, stage, current, total)

\* int(x) if x is not None else 0
IntOrZero(x) == IF x = <<>> THEN 0 ELSE x[1]

\* _cb(current, total, message) of make_job_progress_callback(job_id, stage):
\* "total > 0" raises TypeError for total None; else current is stored when
\* total > 0 and total when it is > 0, None otherwise.
job_progress_callback(rec, stage, current, total) == IF total = <<>> THEN [ok |-> FALSE, rec |-> rec] ELSE [ok |-> TRUE, rec |-> update_progress(rec, stage, IF total[1] > 0 THEN <<IntOrZero(current)>> ELSE <<>>, IF IntOrZero(total) > 0 THEN <<IntOrZero(total)>> ELSE <<>>)]

\* Variant of worker: the result is stored whether run_pipeline returned or raised.
worker_always_done(rec, p) == set_done(rec, p.log)

\* start_pipeline_run.worker: try run_pipeline / set_done, except Exception / set_error.
worker(rec, p) == IF p.ok THEN set_done(rec, p.log) ELSE set_error(rec, p.error)

\* Relation sets retrieve_keyword_subgraph can deliver, and the decomposer's qualities.
PipelineRelations == {<<>>} \cup RunRelations

PipelineInputs(kg_relations, qualities) == [kg_relations |-> kg_relations, qualities |-> qualities]

\* Stage 2 has delivered its qualities; no entry point has started stage 3.
PipelineInit == /\ top_k \in TopKs /\ threshold \in Thresholds /\ index = NoIndex /\ pc = "idle" /\ op = "none" /\ args = <<>> /\ ret = [ok |-> TRUE] /\ calls = <<>> /\ log_files = 0 /\ supplied = <<>>

\* Command line: run_pipeline(cfg), stages 3 and 4.
CliRunPipeline(kg_relations, qualities) == /\ pc = "idle" /\ \E p \in {cli_run_pipeline(kg_relations, qualities, top_k, threshold)} : /\ pc' = (IF p.ok THEN "cli_returned" ELSE "cli_raised") /\ ret' = [error |-> p.error, ok |-> p.ok] /\ supplied' = p.handed /\ calls' = p.calls /\ op' = "cli_run_pipeline" /\ args' = PipelineInputs(kg_relations, qualities) /\ UNCHANGED <<top_k, threshold, index, log_files>>

\* POST /run: create_job, start the worker thread.
StartPipelineRun(kg_relations, qualities) == /\ pc = "idle" /\ pc' = "queued" /\ op' = "ui_run_pipeline" /\ args' = PipelineInputs(kg_relations, qualities) /\ ret' = JobRecord /\ UNCHANGED <<top_k, threshold, index, calls, log_files, supplied>>

\* worker thread: JOB_STORE.set_running(job_id)
WorkerSetRunning == /\ pc = "queued" /\ pc' = "running" /\ ret' = set_running(ret) /\ UNCHANGED <<top_k, threshold, index, op, args, calls, log_files, supplied>>

\* worker thread: stages 3 and 4 of run_pipeline, then set_done or set_error.
WorkerRunStages == /\ pc = "running" /\ \E p \in {ui_run_pipeline(args.kg_relations, args.qualities, top_k, threshold)} : /\ pc' = "finished" /\ ret' = worker(ret, p) /\ supplied' = p.handed /\ calls' = p.calls /\ UNCHANGED <<top_k, threshold, index, op, args, log_files>>

PipelineNext ==
    \/ (\E kg_relations \in PipelineRelations, qualities \in RunQualities : CliRunPipeline(kg_relations, qualities))
    \/ (\E kg_relations \in PipelineRelations, qualities \in RunQualities : StartPipelineRun(kg_relations, qualities))
    \/ (WorkerSetRunning)
    \/ (WorkerRunStages)

PipelineSpec == PipelineInit /\ [][PipelineNext]_vars

\* A run of an entry point has ended.
PipelineEnded == pc \in {"cli_returned", "cli_raised", "finished"}

\* The kept list filter_qualities produces for the run's relations and qualities.
KeptOfRun == Run("SentenceTransformerEncoder", 0, top_k, threshold, args.kg_relations, args.qualities).kept

\* C19: in each entry point that runs the similarity filter and then novelty
\* classification (command line and UI), a run over a non-empty relation set
\* hands classify_qualities_novelty exactly the kept list of filter_qualities,
\* and nothing else is ever handed to it (not the dropped list, the log payload
\* or a tuple wrapping them).
C19_KeptHandedToNovelty ==
    /\ \A i \in 1..Len(supplied) : PipelineEnded => supplied[i] = KeptOfRun
    /\ (PipelineEnded /\ args.kg_relations # <<>>) => supplied = <<KeptOfRun>>

\* C20: a configuration error of the similarity stage (empty relation set) is
\* not caught inside the filter or the index: from the command line it leaves
\* run_pipeline as the ValueError build_index raised; in a UI job it ends the
\* job in state "error" with the message recorded and the stage "Error", the
\* job is not "done", has no result, and classify_qualities_novelty was not
\* called for it.
C20_ConfigErrorAbortsJob ==
    /\ (pc = "finished" /\ args.kg_relations = <<>>) => (ret.state = "error" /\ ret.error = Err_no_kg_relations /\ ret.stage = "Error" /\ ret.result = "None" /\ supplied = <<>> /\ \A i \in 1..Len(calls) : calls[i].fn # "classify_qualities_novelty")
    /\ (op = "cli_run_pipeline" /\ args.kg_relations = <<>>) => (pc = "cli_raised" /\ ret.error = Err_empty_relations /\ supplied = <<>>)
    /\ (op = "ui_run_pipeline" /\ args.kg_relations = <<>>) => ret.state # "done"

\* A UI job over an empty relation set has ended.
C20_Witness == pc = "finished" /\ op = "ui_run_pipeline" /\ args.kg_relations = <<>> /\ args.qualities # <<>> /\ ret.state = "error" /\ ret.error = Err_no_kg_relations

\* ------------------------------------------------------------ encoders and their dim
\* An optional int: <<>> is None, <<d>> is the int d.
DimNone == <<>>

\* SentenceTransformerEncoder.__post_init__: ValueError when the model reports
\* no embedding dimension, else self.dim = int(embedding_dim).
SentenceTransformerEncoder(embedding_dim) == IF embedding_dim = DimNone THEN [dim |-> 0, kind |-> "SentenceTransformerEncoder", ok |-> FALSE] ELSE [dim |-> embedding_dim[1], kind |-> "SentenceTransformerEncoder", ok |-> TRUE]

\* DummyEncoder(dim=...): a dataclass, the field is stored as given.
DummyEncoder(dim) == [dim |-> dim, kind |-> "DummyEncoder", ok |-> TRUE]

\* rng.standard_normal(dim) divided by its norm, for the seed.
DummyVector(seed, dim) == CASE dim = 0 -> <<>> [] dim = 1 -> (IF seed % 2 = 0 THEN <<Scale>> ELSE <<-Scale>>) [] OTHER -> DummyDirection(seed)

\* DummyEncoder.encode: np.zeros((len(texts), dim)) raises ValueError for a
\* negative dim; else one vector of length dim per text.
dummy_encode_dim(texts, secret, dim) == IF dim < 0 THEN [arr |-> Matrix(<<>>, 0), ok |-> FALSE] ELSE [arr |-> Matrix([i \in 1..Len(texts) |-> DummyVector(DummySeed(texts[i], secret), dim)], dim), ok |-> TRUE]

\* self.encoder.encode(texts) of an encoder object.
EncoderEncode(e, secret, texts) == IF e.kind = "DummyEncoder" THEN dummy_encode_dim(texts, secret, e.dim) ELSE [arr |-> encode(texts), ok |-> TRUE]

\* build_index steps 3 and 4 for the encoder's dim.
BuildEncodedDim(e, relations, enc) == IF ~enc.ok THEN [calls |-> <<Call("encode", Len(relations))>>, index |-> NoIndex, ok |-> FALSE, vectors |-> enc.arr] ELSE BuildAdded(add(create(e.dim, Len(relations)), enc.arr, relations), enc.arr, Len(relations))

\* filt.build_index(relations) of a filter constructed with the encoder e.
build_index_of(e, secret, relations) == IF relations = <<>> THEN [calls |-> <<>>, index |-> NoIndex, ok |-> FALSE, vectors |-> Matrix(<<>>, 0)] ELSE BuildEncodedDim(e, relations, EncoderEncode(e, secret, [i \in 1..Len(relations) |-> relation_to_text(relations[i])]))

\* Dimensions a sentence-transformers model reports, and dims given to DummyEncoder.
ModelDims == {DimNone, <<EncoderDim>>}

DummyDims == {-1, 0, 1, 2}

EncoderInit == /\ top_k \in TopKs /\ threshold \in Thresholds /\ index = NoIndex /\ pc = "no_encoder" /\ op = "none" /\ args = <<>> /\ ret = [ok |-> TRUE] /\ calls = <<>> /\ log_files = 0 /\ supplied = <<>>

\* SentenceTransformerEncoder(model_name=...)
ConstructSentenceTransformer(embedding_dim) == /\ pc = "no_encoder" /\ \E e \in {SentenceTransformerEncoder(embedding_dim)} : /\ pc' = (IF e.ok THEN "encoder" ELSE "rejected") /\ op' = "construct_encoder" /\ args' = [dim |-> embedding_dim, kind |-> e.kind] /\ ret' = [encoder |-> e, ok |-> e.ok] /\ UNCHANGED <<top_k, threshold, index, calls, log_files, supplied>>

\* DummyEncoder(dim=dim)
ConstructDummy(dim) == /\ pc = "no_encoder" /\ \E e \in {DummyEncoder(dim)} : /\ pc' = "encoder" /\ op' = "construct_encoder" /\ args' = [dim |-> <<dim>>, kind |-> e.kind] /\ ret' = [encoder |-> e, ok |-> TRUE] /\ UNCHANGED <<top_k, threshold, index, calls, log_files, supplied>>

\* SubgraphSimilarityFilter(encoder=e, ...).build_index(relations)
EncoderBuildIndex(relations) == /\ pc = "encoder" /\ \E r \in {build_index_of(ret.encoder, 0, relations)} : /\ index' = (IF r.ok THEN r.index ELSE index) /\ pc' = (IF r.ok THEN "built" ELSE "failed") /\ ret' = [encoder |-> ret.encoder, ok |-> r.ok] /\ calls' = r.calls /\ op' = "build_index" /\ args' = [encoder |-> ret.encoder, relations |-> relations] /\ UNCHANGED <<top_k, threshold, log_files, supplied>>

EncoderNext ==
    \/ (\E d \in ModelDims : ConstructSentenceTransformer(d))
    \/ (\E d \in DummyDims : ConstructDummy(d))
    \/ (\E relations \in PipelineRelations : EncoderBuildIndex(relations))

EncoderSpec == EncoderInit /\ [][EncoderNext]_vars

\* C21: an encoder whose dim is unknown (None) or <= 0 is rejected: its
\* construction raises, or build_index with it raises; and no index with
\* dim <= 0 is ever created by build_index.
C21_NonPositiveDimRejected ==
    /\ (op = "construct_encoder" /\ args.dim = DimNone) => ~ret.ok
    /\ (op = "build_index" /\ args.encoder.dim <= 0) => ~ret.ok
    /\ index # NoIndex => index.dim > 0

\* ------------------------------------------------------------ the two backends side by side
\* The same calls are made on an index of index.py and on one of index_hnswlib.py.
BothIndexes(f, h) == [faiss |-> f, hnsw |-> h]

ParityInit == /\ top_k = 0 /\ threshold = 0 /\ index = BothIndexes(NoIndex, NoIndex) /\ pc = "none" /\ op = "none" /\ args = <<>> /\ ret = BothIndexes([ok |-> TRUE], [ok |-> TRUE]) /\ calls = <<>> /\ log_files = 0 /\ supplied = <<>>

\* VectorIndex.create(dim=dim, max_elements=MaxIndexSize) in both modules.
BothCreate(dim) == /\ pc = "none" /\ index' = BothIndexes(create(dim, MaxIndexSize), hnsw_create(dim, MaxIndexSize)) /\ pc' = "open" /\ op' = "create" /\ args' = <<dim, MaxIndexSize>> /\ ret' = BothIndexes([ok |-> TRUE], [ok |-> TRUE]) /\ UNCHANGED <<top_k, threshold, calls, log_files, supplied>>

\* index.add(vectors, items) on both.
BothAdd(vectors, items) == /\ pc = "open" /\ Len(index.faiss.payloads) + Len(items) <= MaxIndexSize + 1 /\ \E f \in {add(index.faiss, vectors, items)}, h \in {hnsw_add(index.hnsw, vectors, items)} : /\ index' = BothIndexes(f.self, h.self) /\ ret' = BothIndexes([ok |-> f.ok], [ok |-> h.ok]) /\ op' = "add" /\ args' = <<vectors, items>> /\ UNCHANGED <<top_k, threshold, pc, calls, log_files, supplied>>

\* index.search_batch(queries, k) on both.
BothSearchBatch(queries, k) == /\ pc = "open" /\ ret' = BothIndexes(search_batch(index.faiss, queries, k), hnsw_search_batch(index.hnsw, queries, k)) /\ pc' = "queried" /\ op' = "search_batch" /\ args' = <<queries, k>> /\ UNCHANGED <<top_k, threshold, index, calls, log_files, supplied>>

\* index.search(query_vec, k) on both.
BothSearch(query_vec, k) == /\ pc = "open" /\ \E f \in {search(index.faiss, query_vec, k)}, h \in {hnsw_search(index.hnsw, query_vec, k)} : /\ ret' = BothIndexes([ok |-> f.ok, pairs |-> f.pairs], [ok |-> h.ok, pairs |-> h.pairs]) /\ pc' = "queried" /\ op' = "search" /\ args' = <<query_vec, k>> /\ UNCHANGED <<top_k, threshold, index, calls, log_files, supplied>>

ParityNext ==
    \/ (\E dim \in {EncoderDim - 1, EncoderDim} : BothCreate(dim))
    \/ (\E vectors \in AddArrays, items \in ItemLists : BothAdd(vectors, items))
    \/ (\E queries \in QueryArrays, k \in TopKs : BothSearchBatch(queries, k))
    \/ (\E query_vec \in QueryVectors, k \in TopKs : BothSearch(query_vec, k))

ParitySpec == ParityInit /\ [][ParityNext]_vars

\* The shape of a search_batch result: list lengths, score matrix shape, masked slots.
BatchShape(r) == [masked |-> [i \in 1..Len(r.ids) |-> {j \in 1..Len(r.ids[i]) : r.ids[i][j] < 0}], neighbors |-> [i \in 1..Len(r.neighbors) |-> Len(r.neighbors[i])], scores |-> [i \in 1..Len(r.scores) |-> Len(r.scores[i])]]

\* C22: for the same sequence of create, add, search and search_batch calls
\* with the same arguments the two backends raise on the same calls and, on
\* the others, return neighbor lists of the same lengths, score matrices of
\* the same shape, the same slots masked (payload omitted, score 0), and hold
\* identical payloads lists.
C22_BackendsAgree ==
    /\ ret.faiss.ok = ret.hnsw.ok
    /\ index.faiss.payloads = index.hnsw.payloads
    /\ (op = "search_batch" /\ ret.faiss.ok /\ ret.hnsw.ok) => BatchShape(ret.faiss) = BatchShape(ret.hnsw)
    /\ (op = "search" /\ ret.faiss.ok /\ ret.hnsw.ok) => Len(ret.faiss.pairs) = Len(ret.hnsw.pairs)

\* ------------------------------------------------------------ queries on a built index
\* Variant of after_search_batch: the normalized queries are added to the index.
after_search_batch_adding(self, q, k) == IF ~q.ok \/ q.arr.cols # self.dim \/ k <= 0 THEN self ELSE [self EXCEPT !.index = faiss_add(@, l2_normalize_rows(q.arr.rows))]

\* The index object after search_batch(query_vecs, k): the method assigns no
\* field of self, normalizes into a new array, copies scores before masking,
\* and IndexFlatIP.search only reads.
after_search_batch(self, q, k) == self

\* The index object after search(query_vec, k), which delegates to search_batch.
after_search(self, q, k) == IF k <= 0 \/ ~q.ok THEN self ELSE after_search_batch(self, as_float32_matrix(ReshapeOneRow(q.v)), k)

\* The index after filter_qualities: its one search_batch call on the encoded qualities.
after_filter_qualities(k, self, qualities) == IF qualities = <<>> THEN self ELSE after_search_batch(self, as_float32_matrix(encode([i \in 1..Len(qualities) |-> quality_to_text(qualities[i])])), k)

\* Queries of the repeated-query lifecycle.
RepeatQueryArrays == {Matrix([i \in 1..n |-> QueryVec(i)], EncoderDim) : n \in 1..MaxQualities} \cup {Vector1D(<<Scale, 0>>)}

RepeatQueryVectors == {Vector1D(QueryVec(1)), Vector1D(QueryVec(3))}

RepeatKs == {0, 1, MaxTopK}

\* One query as remembered for a later repetition.
QueryRecord(o, a, r) == [args |-> a, op |-> o, ret |-> r]

QueryInit == /\ top_k \in {1, MaxTopK} /\ threshold = 0 /\ index = NoIndex /\ pc = "none" /\ op = "none" /\ args = <<>> /\ ret = [ok |-> TRUE] /\ calls = <<>> /\ log_files = 0 /\ supplied = <<>>

\* VectorIndex.create(dim=EncoderDim, max_elements=MaxIndexSize)
QCreate == /\ pc = "none" /\ index' = create(EncoderDim, MaxIndexSize) /\ pc' = "open" /\ op' = "create" /\ args' = <<EncoderDim, MaxIndexSize>> /\ ret' = [ok |-> TRUE] /\ calls' = <<Call("create", MaxIndexSize)>> /\ UNCHANGED <<top_k, threshold, log_files, supplied>>

\* index.add(vectors, items), before or after queries.
QAdd(vectors, items) == /\ pc \in {"open", "queried"} /\ Len(index.payloads) + Len(items) <= MaxIndexSize /\ \E r \in {add(index, vectors, items)} : /\ index' = r.self /\ ret' = [ok |-> r.ok] /\ pc' = "open" /\ op' = "add" /\ args' = <<vectors, items>> /\ calls' = <<Call("add", Len(items))>> /\ supplied' = <<>> /\ UNCHANGED <<top_k, threshold, log_files>>

\* index.search_batch(queries, k): a first query, or a second one with no add in between.
QSearchBatch(queries, k) == /\ pc \in {"open", "queried"} /\ \E r \in {search_batch(index, queries, k)} : /\ ret' = r /\ index' = after_search_batch(index, as_float32_matrix(queries), k) /\ pc' = (IF pc = "open" THEN "queried" ELSE "requeried") /\ op' = "search_batch" /\ args' = <<queries, k>> /\ calls' = calls \o <<Call("search_batch", Len(queries.rows))>> /\ supplied' = (IF pc = "open" THEN <<QueryRecord("search_batch", <<queries, k>>, r)>> ELSE supplied) /\ UNCHANGED <<top_k, threshold, log_files>>

\* index.search(query_vec, k): a first query, or a second one with no add in between.
QSearch(query_vec, k) == /\ pc \in {"open", "queried"} /\ \E r \in {search(index, query_vec, k)} : /\ ret' = [ok |-> r.ok, pairs |-> r.pairs] /\ index' = after_search(index, as_float32_vector(query_vec, index.dim), k) /\ pc' = (IF pc = "open" THEN "queried" ELSE "requeried") /\ op' = "search" /\ args' = <<query_vec, k>> /\ calls' = calls \o <<Call("search", 1)>> /\ supplied' = (IF pc = "open" THEN <<QueryRecord("search", <<query_vec, k>>, [ok |-> r.ok, pairs |-> r.pairs])>> ELSE supplied) /\ UNCHANGED <<top_k, threshold, log_files>>

\* One run: filt.build_index(relations) ...
QBuildIndex(relations) == /\ pc = "none" /\ \E r \in {build_index(relations)} : /\ r.ok /\ index' = r.index /\ pc' = "built" /\ op' = "build_index" /\ args' = relations /\ ret' = [ok |-> TRUE] /\ calls' = r.calls /\ UNCHANGED <<top_k, threshold, log_files, supplied>>

\* ... then filt.filter_qualities(index=index, qualities=qualities).
QFilterQualities(qualities) == /\ pc = "built" /\ \E r \in {filter_qualities(top_k, threshold, index, qualities)} : /\ index' = after_filter_qualities(top_k, index, qualities) /\ pc' = "filtered" /\ op' = "filter_qualities" /\ args' = qualities /\ ret' = [dropped |-> r.dropped, kept |-> r.kept, ok |-> r.ok] /\ calls' = calls \o r.calls /\ log_files' = log_files + r.files /\ UNCHANGED <<top_k, threshold, supplied>>

QueryNext ==
    \/ (QCreate)
    \/ (\E n \in 1..MaxAddRows : QAdd(Matrix([i \in 1..n |-> AddVec(i)], EncoderDim), [i \in 1..n |-> IF i % 2 = 1 THEN Rel_bias ELSE Rel_drift]))
    \/ (\E queries \in RepeatQueryArrays, k \in RepeatKs : QSearchBatch(queries, k))
    \/ (\E query_vec \in RepeatQueryVectors, k \in RepeatKs : QSearch(query_vec, k))
    \/ (\E relations \in RunRelations : QBuildIndex(relations))
    \/ (\E qualities \in RunQualities : QFilterQualities(qualities))

QuerySpec == QueryInit /\ [][QueryNext]_vars

\* No add is recorded after the first search of the run's calls.
NoAddAfterSearch(cs) == \A i \in 1..Len(cs) : \A j \in 1..Len(cs) : (i < j /\ cs[i].fn \in {"search", "search_batch", "faiss.search"}) => cs[j].fn # "add"

C23_WitnessRun == pc = "filtered" /\ Len(index.payloads) = 2 /\ \E i \in 1..Len(calls) : calls[i].fn = "search_batch"

\* ------------------------------------------------------------ claims on normalization
IsZeroRow(v) == \A j \in 1..Len(v) : v[j] = 0

\* The row has length 1 up to the rounding of the fixed-point division.
IsUnitRow(v) == (Scale - 2) * (Scale - 2) <= SumSq(v) /\ SumSq(v) <= (Scale + 2) * (Scale + 2)

\* The rows the last add stored, in the order of its vectors.
StoredByLastAdd == [i \in 1..Len(args[1].rows) |-> index.index[Len(index.index) - Len(args[1].rows) + i]]

\* C24: a row that is exactly zero is normalized to an all-zero row (no NaN);
\* add stores each vector normalized (zero rows as zeros, the others at unit
\* length), and search_batch normalizes queries the same way, so an all-zero
\* query scores exactly 0 against every stored vector.
C24_ZeroRowsStayZero ==
    /\ (op = "add" /\ ret.ok /\ index.backend = "faiss") => \A i \in 1..Len(args[1].rows) : IF IsZeroRow(args[1].rows[i]) THEN IsZeroRow(StoredByLastAdd[i]) ELSE IsUnitRow(StoredByLastAdd[i])
    /\ (op = "search_batch" /\ ret.ok /\ index.backend = "faiss") => \A i \in 1..Len(ret.scores) : IsZeroRow(args[1].rows[i]) => IsZeroRow(ret.scores[i])
    /\ index.backend = "faiss" => \A i \in 1..Len(index.index) : IsZeroRow(index.index[i]) \/ IsUnitRow(index.index[i])

\* An all-zero query has been searched on an index holding a stored vector.
C24_Witness == op = "search_batch" /\ ret.ok /\ index.backend = "faiss" /\ args[2] > 0 /\ index.index # <<>> /\ \E i \in 1..Len(ret.scores) : IsZeroRow(args[1].rows[i]) /\ ret.neighbors[i] # <<>> /\ IsZeroRow(ret.scores[i])

\* A zero row has been added and stored as zeros.
C24_WitnessAdd == op = "add" /\ ret.ok /\ index.backend = "faiss" /\ args[1] = ZeroRowArray /\ IsZeroRow(StoredByLastAdd[1])

\* ------------------------------------------------------------ claims on scores
\* Cosine of the angle between two raw vectors, 0 when one of them is zero.
Cosine(u, v) == IF SumSq(u) = 0 \/ SumSq(v) = 0 THEN 0 ELSE RoundDiv(SumProd(u, v) * Scale, Sqrt(SumSq(u)) * Sqrt(SumSq(v)))

\* Equal up to the rounding of the operations: two fixed-point steps.
Near(a, b) == a - b <= 2 /\ b - a <= 2

\* The score is the cosine between the vector of the quality and a vector
\* that was indexed with the relation.
IsCosineOf(score, quality, relation) == \E p \in 1..Len(supplied) : supplied[p].item = relation /\ Near(score, Cosine(EmbeddingOf(quality_to_text(quality)), supplied[p].vec))

BackendScore(quality, p) == Dot(l2_normalize_row(EmbeddingOf(quality_to_text(quality))), index.index[p])

\* C26: in every KeptQuality, neighbors[j].score is the score the backend
\* reported for the index entry whose payload is neighbors[j].relation; the
\* sentinel ids dropped from the neighbor list shift no payload onto the score
\* of another entry or of a sentinel slot.
C26_NeighborScoreAligned == Filtered => \A i \in 1..Len(ret.kept) : \A j \in 1..Len(ret.kept[i].neighbors) : \E p \in 1..Len(index.payloads) : index.payloads[p] = ret.kept[i].neighbors[j].relation /\ ret.kept[i].neighbors[j].score = BackendScore(ret.kept[i].quality, p)

\* A kept quality searched with top_k above the index size: sentinels were
\* dropped, and its two neighbors have different scores, neither of them 0.
C26_Witness == Filtered /\ top_k > Len(index.payloads) /\ \E i \in 1..Len(ret.kept) : Len(ret.kept[i].neighbors) = 2 /\ ret.kept[i].neighbors[1].score # ret.kept[i].neighbors[2].score /\ ret.kept[i].neighbors[1].score # 0 /\ ret.kept[i].neighbors[2].score # 0

\* ------------------------------------------------------------ UI jobs
\* Most paragraphs Docling delivers for an upload.
MaxParagraphs == 2

\* The job store before create_job.
NoJob == [current |-> <<>>, error |-> "None", result |-> "None", stage |-> "none", state |-> "none", total |-> <<>>]

Err_docling_failed == "RuntimeError: Docling could not convert the document"

Err_no_paragraphs == "ValueError: Docling extraction produced no valid paragraphs."

Err_progress_keyword == "TypeError: filter_paragraphs_by_keyword() got an unexpected keyword argument 'progress'"

Err_extraction == "RuntimeError: triplet extraction failed"

\* Variant of extract_paragraphs_from_pdf without the check for no paragraphs.
extract_paragraphs_from_pdf_unguarded(docling) == IF docling < 0 THEN [error |-> Err_docling_failed, ok |-> FALSE, paragraphs |-> 0] ELSE [error |-> "None", ok |-> TRUE, paragraphs |-> docling]

\* extract_paragraphs_from_pdf: Docling raises (docling < 0) or delivers
\* docling paragraphs with text; none at all raises ValueError.
extract_paragraphs_from_pdf(docling) == IF docling < 0 THEN [error |-> Err_docling_failed, ok |-> FALSE, paragraphs |-> 0] ELSE IF docling = 0 THEN [error |-> Err_no_paragraphs, ok |-> FALSE, paragraphs |-> 0] ELSE [error |-> "None", ok |-> TRUE, paragraphs |-> docling]

\* Keyword parameters filter_paragraphs_by_keyword declares, and the keywords
\* run_pipeline passes to it.
FilterParagraphsParams == {"paragraphs", "search_keyword", "max_synonyms"}

RunnerPassedKeywords == {"paragraphs", "search_keyword", "progress"}

\* The exception the worker's "except Exception" catches at its position.
WorkerError == IF pc = "docling" THEN extract_paragraphs_from_pdf(args.docling).error ELSE IF pc = "keybert" THEN Err_progress_keyword ELSE Err_extraction

\* The worker's call in progress raises.
WorkerRaises ==
    \/ pc = "docling" /\ ~extract_paragraphs_from_pdf(args.docling).ok
    \/ pc = "keybert" /\ ~KeywordsBind(RunnerPassedKeywords, FilterParagraphsParams)
    \/ pc = "extracting" /\ args.extraction # "returns"

\* Fields of the record get_job_status reads, in the order of its response.
PollFields == <<"state", "stage", "current", "total", "result", "error">>

\* Values a stage may pass to a progress callback as current or total.
CallbackValues == {<<>>} \cup {<<n>> : n \in (-1)..MaxParagraphs}

\* No request has been made.
JobInit == /\ top_k = 1 /\ threshold = 0 /\ index = NoIndex /\ pc = "idle" /\ op = "none" /\ args = <<>> /\ ret = NoJob /\ calls = <<>> /\ log_files = 0 /\ supplied = <<>>

\* A running job in the KeyBERT stage, whose progress callback has been made.
CallbackInit == /\ top_k = 1 /\ threshold = 0 /\ index = NoIndex /\ pc = "callback" /\ op = "callback" /\ args = <<>> /\ \E n \in 1..MaxParagraphs : ret = init_stage(set_running(JobRecord), "KeyBERT", <<0>>, <<n>>) /\ calls = <<>> /\ log_files = 0 /\ supplied = <<>>

\* POST /run: create_job, then _save_upload_to_tmp and get_pipeline_config in
\* the request thread, then the worker thread is started.
StartRun(upload, docling) == /\ pc = "idle" /\ pc' = (IF upload = "saved" THEN "queued" ELSE "request_failed") /\ op' = "pipeline" /\ args' = [docling |-> docling, upload |-> upload] /\ ret' = JobRecord /\ UNCHANGED <<top_k, threshold, index, calls, log_files, supplied>>

\* POST /triplet-extraction: create_job and the worker thread is started.
StartTriplet(extraction) == /\ pc = "idle" /\ pc' = "queued" /\ op' = "triplet" /\ args' = [extraction |-> extraction] /\ ret' = JobRecord /\ UNCHANGED <<top_k, threshold, index, calls, log_files, supplied>>

\* worker: JOB_STORE.set_running(job_id)
SetRunning == /\ pc = "queued" /\ pc' = "running" /\ ret' = set_running(ret) /\ UNCHANGED <<top_k, threshold, index, op, args, calls, log_files, supplied>>

\* run_pipeline: init_stage(stage="Docling", current=None, total=None)
StageDocling == /\ pc = "running" /\ op = "pipeline" /\ pc' = "docling" /\ ret' = init_stage(ret, "Docling", <<>>, <<>>) /\ UNCHANGED <<top_k, threshold, index, op, args, calls, log_files, supplied>>

\* run_pipeline: Docling returned; init_stage(stage="KeyBERT", current=0, total=len(paragraphs))
StageKeyBERT == /\ pc = "docling" /\ extract_paragraphs_from_pdf(args.docling).ok /\ pc' = "keybert" /\ ret' = init_stage(ret, "KeyBERT", <<0>>, <<extract_paragraphs_from_pdf(args.docling).paragraphs>>) /\ UNCHANGED <<top_k, threshold, index, op, args, calls, log_files, supplied>>

\* triplet worker: update_progress(stage="TripletExtractionLLM", current=None, total=None)
TripletProgress == /\ pc = "running" /\ op = "triplet" /\ pc' = "extracting" /\ ret' = update_progress(ret, "TripletExtractionLLM", <<>>, <<>>) /\ UNCHANGED <<top_k, threshold, index, op, args, calls, log_files, supplied>>

\* triplet worker: extract_triplets_batch returned; set_done(job_id, result)
TripletDone == /\ pc = "extracting" /\ args.extraction = "returns" /\ pc' = "finished" /\ ret' = set_done(ret, "extracted_triplets") /\ UNCHANGED <<top_k, threshold, index, op, args, calls, log_files, supplied>>

\* worker: except Exception as e: set_error(job_id, str(e))
WorkerFailed == /\ WorkerRaises /\ pc' = "finished" /\ ret' = set_error(ret, WorkerError) /\ UNCHANGED <<top_k, threshold, index, op, args, calls, log_files, supplied>>

\* GET /jobs/<job_id>: rec = JOB_STORE.get(job_id), under the lock.
PollGet == /\ op \in {"pipeline", "triplet"} /\ (calls = <<>> \/ Len(calls) = Len(PollFields) + 1) /\ calls' = <<"get">> /\ supplied' = <<>> /\ UNCHANGED <<top_k, threshold, index, pc, op, args, ret, log_files>>

\* get_job_status: the next field of rec is read for the response, the lock
\* not held.
PollRead == /\ calls # <<>> /\ Len(calls) <= Len(PollFields) /\ calls' = Append(calls, PollFields[Len(calls)]) /\ supplied' = Append(supplied, ret[PollFields[Len(calls)]]) /\ UNCHANGED <<top_k, threshold, index, pc, op, args, ret, log_files>>

\* A stage calls the progress callback it was given.
InvokeCallback(current, total) == /\ pc = "callback" /\ \E r \in {job_progress_callback(ret, "KeyBERT", current, total)} : /\ pc' = (IF r.ok THEN "callback_returned" ELSE "callback_raised") /\ ret' = r.rec /\ args' = [current |-> current, total |-> total] /\ UNCHANGED <<top_k, threshold, index, op, calls, log_files, supplied>>

JobNext ==
    \/ (\E upload \in {"saved", "save_raised", "config_raised"}, docling \in (-1)..MaxParagraphs : StartRun(upload, docling))
    \/ (\E extraction \in {"returns", "raises"} : StartTriplet(extraction))
    \/ (SetRunning)
    \/ (StageDocling)
    \/ (StageKeyBERT)
    \/ (TripletProgress)
    \/ (TripletDone)
    \/ (WorkerFailed)
    \/ (PollGet)
    \/ (PollRead)
    \/ (\E current \in CallbackValues, total \in CallbackValues : InvokeCallback(current, total))

JobSpec == (JobInit \/ CallbackInit) /\ [][JobNext]_vars

\* The worker thread, once started, keeps being scheduled.
FairJobSpec == JobSpec /\ WF_vars(SetRunning) /\ WF_vars(StageDocling) /\ WF_vars(StageKeyBERT) /\ WF_vars(TripletProgress) /\ WF_vars(TripletDone) /\ WF_vars(WorkerFailed)

\* ------------------------------------------------------------ claims on UI jobs
\* The changes of state a job may make.
JobMoves == {<<"none", "queued">>, <<"queued", "running">>, <<"running", "done">>, <<"running", "error">>}

\* C27: the state of a UI job only moves queued -> running -> done or
\* queued -> running -> error, done and error are final; a done job has a
\* result, no error and stage "Done", a failed job has an error, no result and
\* stage "Error".
C27_JobStateMachine ==
    /\ [][ret'.state # ret.state => <<ret.state, ret'.state>> \in JobMoves]_vars
    /\ [][ret.state \in {"done", "error"} => ret' = ret]_vars
    /\ [](ret.state = "done" => (ret.result # "None" /\ ret.error = "None" /\ ret.stage = "Done"))
    /\ [](ret.state = "error" => (ret.error # "None" /\ ret.result = "None" /\ ret.stage = "Error"))

\* A triplet-extraction job has ended done, with its result.
C27_Witness == op = "triplet" /\ pc = "finished" /\ ret.state = "done" /\ ret.result = "extracted_triplets"

\* A pipeline job has ended in error in the KeyBERT stage.
C27_WitnessError == op = "pipeline" /\ pc = "finished" /\ ret.state = "error" /\ ret.error = Err_progress_keyword

\* C28 as claimed: every job registered by create_job in start_pipeline_run or
\* start_triplet_extraction eventually reaches state "done" or "error" (the
\* stages it calls return or raise); none stays "queued" or "running" forever.
C28_JobsEventuallyEnd == [](ret.state \in {"queued", "running"} /\ op \in {"pipeline", "triplet"} => <>(ret.state \in {"done", "error"}))

\* C28, for the jobs whose worker thread was started: each of them ends.
C28_StartedJobsEnd == [](pc = "queued" => <>(ret.state \in {"done", "error"}))

\* get_job_status has read every field of its response.
ResponseComplete == Len(supplied) = Len(PollFields)

\* C29 as claimed: every response of get_job_status reflects one single state
\* of the job record: it never reports state "queued" or "running" together
\* with stage "Done", a result, or an error.
C29_ResponseIsOneState == (op \in {"pipeline", "triplet"} /\ ResponseComplete /\ supplied[1] \in {"queued", "running"}) => (supplied[2] # "Done" /\ supplied[5] = "None" /\ supplied[6] = "None")

C30_WitnessStage == op = "pipeline" /\ pc = "keybert" /\ ret.stage = "KeyBERT" /\ ret.total = <<args.docling>> /\ ret.current = <<0>>

====
